---- MODULE Spec2Model ----
(***************************************************************************)
(* Model of backend/main.py of cassandra-driver-code-generator: the        *)
(* natural-language classifier / template renderer                         *)
(* parse_natural_language_query and the request handler handle_query.      *)
(*                                                                         *)
(* Text is modelled by TLA+ strings, on which TLC evaluates Len, SubSeq    *)
(* and \o character by character.  The character classes are the ASCII     *)
(* part of Python's classes.  A non-ASCII character of a template literal  *)
(* is written as its \uXXXX escape.                                        *)
(***************************************************************************)
EXTENDS Integers, Sequences, FiniteSets, TLC

VARIABLES
  pc,          \* "idle": no call in progress; "returned": a call has returned
  op,          \* which entry point ran last: "none", "parse" or "handle"
  query,       \* argument `query` of parse_natural_language_query, as passed
  keyspace,    \* argument `keyspace`
  driver_type, \* argument `driver_type`
  category,    \* the branch of parse_natural_language_query that returned
  params,      \* the local variables the branch extracted
  result,      \* the string parse_natural_language_query returned
  request,     \* the body of the POST /api/execute-query request
  response,    \* the reply of the request boundary
  clock,       \* the process environment: time.time() / random state
  memo,        \* an earlier call kept for comparison: its arguments and result
  calls,       \* the calls in progress side by side: each one's frame
  globals,     \* the names bound at module level, which every call can see
  script       \* a run of an example program: its position, locals and effects

vars == <<pc, op, query, keyspace, driver_type, category, params, result,
          request, response, clock, memo, calls, globals, script>>

----------------------------------------------------------------------------
(* Characters and strings                                                  *)

CharAt(s, i) == SubSeq(s, i, i)

\* Python: p in s
Contains(s, p) ==
  \E i \in 1..(Len(s) - Len(p) + 1) : SubSeq(s, i, i + Len(p) - 1) = p

StartsWithAt(s, i, p) ==
  /\ i + Len(p) - 1 <= Len(s)
  /\ SubSeq(s, i, i + Len(p) - 1) = p

UpperChars == "ABCDEFGHIJKLMNOPQRSTUVWXYZ"
LowerChars == "abcdefghijklmnopqrstuvwxyz"
DigitChars == "0123456789"
SpaceChars == " \t\n\r\f"

IsUpper(c) == Len(c) = 1 /\ Contains(UpperChars, c)
IsDigit(c) == Len(c) = 1 /\ Contains(DigitChars, c)
\* regex \s, and the characters str.strip() removes
IsSpace(c) == Len(c) = 1 /\ Contains(SpaceChars, c)
\* regex \w
IsWord(c) ==
  /\ Len(c) = 1
  /\ \/ Contains(LowerChars, c)
     \/ Contains(UpperChars, c)
     \/ Contains(DigitChars, c)
     \/ c = "_"

LowerChar(c) ==
  IF IsUpper(c)
    THEN CharAt(LowerChars, CHOOSE i \in 1..Len(UpperChars) : CharAt(UpperChars, i) = c)
    ELSE c

RECURSIVE Lower(_)
\* str.lower()
Lower(s) ==
  IF s = "" THEN "" ELSE LowerChar(CharAt(s, 1)) \o Lower(SubSeq(s, 2, Len(s)))

MinOf(S) == CHOOSE x \in S : \A y \in S : x <= y
MaxOf(S) == CHOOSE x \in S : \A y \in S : y <= x

\* str.strip()
Strip(s) ==
  LET keep == {i \in 1..Len(s) : ~IsSpace(CharAt(s, i))}
  IN  IF keep = {} THEN "" ELSE SubSeq(s, MinOf(keep), MaxOf(keep))

DigitVal(c) == (CHOOSE i \in 1..Len(DigitChars) : CharAt(DigitChars, i) = c) - 1

RECURSIVE ParseInt(_)
\* int(s) of a non-empty run of decimal digits
ParseInt(s) ==
  IF s = "" THEN 0
  ELSE ParseInt(SubSeq(s, 1, Len(s) - 1)) * 10 + DigitVal(CharAt(s, Len(s)))

\* str(n) of an int, as an f-string renders it
IntToStr(n) == ToString(n)

----------------------------------------------------------------------------
(* Regular expressions of main.py, matched as re.search matches them:      *)
(* the leftmost start position wins, at one position the first             *)
(* alternative wins, and + is greedy.                                      *)

\* end of the longest run of white space / word characters / digits that
\* starts at i (i - 1 when the character at i is not of the class)
SpaceRunEnd(s, i) ==
  CHOOSE j \in (i - 1)..Len(s) :
    /\ \A k \in i..j : IsSpace(CharAt(s, k))
    /\ j = Len(s) \/ ~IsSpace(CharAt(s, j + 1))

WordRunEnd(s, i) ==
  CHOOSE j \in (i - 1)..Len(s) :
    /\ \A k \in i..j : IsWord(CharAt(s, k))
    /\ j = Len(s) \/ ~IsWord(CharAt(s, j + 1))

DigitRunEnd(s, i) ==
  CHOOSE j \in (i - 1)..Len(s) :
    /\ \A k \in i..j : IsDigit(CharAt(s, k))
    /\ j = Len(s) \/ ~IsDigit(CharAt(s, j + 1))

NoMatch == [found |-> FALSE]
Matched(pos, g1, g2) == [found |-> TRUE, start |-> pos, group1 |-> g1, group2 |-> g2]
\* a group that took part in the match, and one that did not (Python's None)
Group(text) == [present |-> TRUE, text |-> text]
NoGroup == [present |-> FALSE]

\* kw\s+(\w+) anchored at position i
KeywordWordAt(s, i, kw) ==
  /\ StartsWithAt(s, i, kw)
  /\ LET a == i + Len(kw)
         e == SpaceRunEnd(s, a)
     IN  e >= a /\ e + 1 <= Len(s) /\ IsWord(CharAt(s, e + 1))

KeywordWordGroup(s, i, kw) ==
  LET e == SpaceRunEnd(s, i + Len(kw))
  IN  SubSeq(s, e + 1, WordRunEnd(s, e + 1))

\* kw\s+(\d+) anchored at position i
KeywordDigitsAt(s, i, kw) ==
  /\ StartsWithAt(s, i, kw)
  /\ LET a == i + Len(kw)
         e == SpaceRunEnd(s, a)
     IN  e >= a /\ e + 1 <= Len(s) /\ IsDigit(CharAt(s, e + 1))

KeywordDigitsGroup(s, i, kw) ==
  LET e == SpaceRunEnd(s, i + Len(kw))
  IN  SubSeq(s, e + 1, DigitRunEnd(s, e + 1))

\* re.search(r'kw\s+(\w+)', s)
SearchKeywordWord(s, kw) ==
  LET hits == {i \in 1..Len(s) : KeywordWordAt(s, i, kw)}
  IN  IF hits = {} THEN NoMatch
      ELSE Matched(MinOf(hits), Group(KeywordWordGroup(s, MinOf(hits), kw)), NoGroup)

\* re.search(r'kw1\s+(\w+)|kw2\s+(\w+)', s)
SearchKeywordWordAlt(s, kw1, kw2) ==
  LET hits == {i \in 1..Len(s) : KeywordWordAt(s, i, kw1) \/ KeywordWordAt(s, i, kw2)}
      p == MinOf(hits)
  IN  IF hits = {} THEN NoMatch
      ELSE IF KeywordWordAt(s, p, kw1)
        THEN Matched(p, Group(KeywordWordGroup(s, p, kw1)), NoGroup)
        ELSE Matched(p, NoGroup, Group(KeywordWordGroup(s, p, kw2)))

\* re.search(r'kw\s+(\d+)', s)
SearchKeywordDigits(s, kw) ==
  LET hits == {i \in 1..Len(s) : KeywordDigitsAt(s, i, kw)}
  IN  IF hits = {} THEN NoMatch
      ELSE Matched(MinOf(hits), Group(KeywordDigitsGroup(s, MinOf(hits), kw)), NoGroup)

\* re.search(r'(\d+)', s)
SearchDigits(s) ==
  LET hits == {i \in 1..Len(s) : IsDigit(CharAt(s, i))}
      p == MinOf(hits)
  IN  IF hits = {} THEN NoMatch
      ELSE Matched(p, Group(SubSeq(s, p, DigitRunEnd(s, p))), NoGroup)

\* (\d+)\s+rows anchored at position i: the digits are followed by white
\* space, so the match takes the digit run to its end
DigitsRowsAt(s, i) ==
  /\ i <= Len(s) /\ IsDigit(CharAt(s, i))
  /\ LET d == DigitRunEnd(s, i)
         e == SpaceRunEnd(s, d + 1)
     IN  e >= d + 1 /\ StartsWithAt(s, e + 1, "rows")

\* re.search(r'(\d+)\s+rows', s)
SearchDigitsRows(s) ==
  LET hits == {i \in 1..Len(s) : DigitsRowsAt(s, i)}
      p == MinOf(hits)
  IN  IF hits = {} THEN NoMatch
      ELSE Matched(p, Group(SubSeq(s, p, DigitRunEnd(s, p))), NoGroup)

----------------------------------------------------------------------------
(* Templates.  An f-string of main.py is the sequence of its literal       *)
(* pieces and its replacement fields, one source line per row; {{ and }}   *)
(* of the source are the literal { and } they denote.                      *)

Lit(text) == <<"lit", text>>
Slot(name) == <<"slot", name>>

\* a replacement field left as written, as a plain string literal leaves it
RenderSegmentPlain(seg, env) ==
  IF seg[1] = "lit" THEN seg[2] ELSE "{" \o seg[2] \o "}"

\* every replacement field normalized the way the query text is
RenderSegmentNormalized(seg, env) ==
  IF seg[1] = "lit" THEN seg[2] ELSE Strip(Lower(env[seg[2]]))

\* the value an f-string puts for one piece: a literal as it is, a
\* replacement field by the value of the variable it names
RenderSegment(seg, env) ==
  IF seg[1] = "lit" THEN seg[2] ELSE env[seg[2]]

RECURSIVE RenderRange(_, _, _, _)
RenderRange(template, env, lo, hi) ==
  IF lo > hi THEN ""
  ELSE IF lo = hi THEN RenderSegment(template[lo], env)
  ELSE LET mid == (lo + hi) \div 2
       IN  RenderRange(template, env, lo, mid) \o RenderRange(template, env, mid + 1, hi)

\* evaluation of the f-string with the local variables env
Render(template, env) == RenderRange(template, env, 1, Len(template))

\* main.py:172-311
TemplateLargePartitionPython ==
  << Lit("\n"),
     Lit("# Connect to your Cassandra cluster\n"),
     Lit("# ... connection code will be included in the driver code template ...\n"),
     Lit("\n"),
     Lit("import uuid\n"),
     Lit("import random\n"),
     Lit("import time\n"),
     Lit("from datetime import datetime, timedelta\n"),
     Lit("\n"),
     Lit("# Create a table with a simple schema for the large partition test\n"),
     Lit("create_table_query = \"\"\"\n"),
     Lit("CREATE TABLE IF NOT EXISTS "), Slot("keyspace"), Lit("."), Slot("table_name"), Lit(" (\n"),
     Lit("    "), Slot("partition_key"), Lit(" text,\n"),
     Lit("    activity_timestamp timestamp,\n"),
     Lit("    activity_type text,\n"),
     Lit("    details text,\n"),
     Lit("    PRIMARY KEY ("), Slot("partition_key"), Lit(", activity_timestamp)\n"),
     Lit(") WITH CLUSTERING ORDER BY (activity_timestamp DESC)\n"),
     Lit("\"\"\"\n"),
     Lit("session.execute(create_table_query)\n"),
     Lit("print(f\"Table "), Slot("keyspace"), Lit("."), Slot("table_name"), Lit(" created or verified successfully\")\n"),
     Lit("\n"),
     Lit("# Define activity types for random selection\n"),
     Lit("activity_types = [\"login\", \"click\", \"view\", \"purchase\", \"logout\", \"scroll\", \"search\"]\n"),
     Lit("detail_templates = [\n"),
     Lit("    \"Viewed product: {}\",\n"),
     Lit("    \"Clicked on: {}\",\n"),
     Lit("    \"Searched for: {}\",\n"),
     Lit("    \"Added to cart: {}\",\n"),
     Lit("    \"Purchased item: {}\",\n"),
     Lit("    \"Visited page: {}\"\n"),
     Lit("]\n"),
     Lit("products = [\"laptop\", \"phone\", \"headphones\", \"keyboard\", \"mouse\", \"monitor\", \"tablet\", \"camera\", \"speaker\", \"watch\"]\n"),
     Lit("\n"),
     Lit("# Use a fixed partition key value to ensure all rows go to same partition\n"),
     Lit("partition_value = \"large_partition_user\"\n"),
     Lit("\n"),
     Lit("# Prepare the insert statement for better performance\n"),
     Lit("prepared_stmt = session.prepare(\"\"\"\n"),
     Lit("    INSERT INTO "), Slot("keyspace"), Lit("."), Slot("table_name"), Lit(" ("), Slot("partition_key"), Lit(", activity_timestamp, activity_type, details)\n"),
     Lit("    VALUES (?, ?, ?, ?)\n"),
     Lit("\"\"\")\n"),
     Lit("\n"),
     Lit("# Track timing\n"),
     Lit("start_time = time.time()\n"),
     Lit("batch_size = 100  # Insert in batches for better performance\n"),
     Lit("total_batches = "), Slot("num_rows"), Lit(" // batch_size + (1 if "), Slot("num_rows"), Lit(" % batch_size != 0 else 0)\n"),
     Lit("\n"),
     Lit("print(f\"Generating "), Slot("num_rows"), Lit(" rows in the same partition ('"), Slot("partition_value"), Lit("')...\")\n"),
     Lit("print(f\"This will create a large partition to test partition size limitations.\")\n"),
     Lit("\n"),
     Lit("for batch in range(total_batches):\n"),
     Lit("    # Show progress periodically\n"),
     Lit("    if batch % 10 == 0 or batch == total_batches - 1:\n"),
     Lit("        print(f\"Processing batch {batch+1}/{total_batches} ({(batch+1)*100/total_batches:.1f}%)\")\n"),
     Lit("    \n"),
     Lit("    batch_rows = min(batch_size, "), Slot("num_rows"), Lit(" - batch * batch_size)\n"),
     Lit("    \n"),
     Lit("    # Process each row in the current batch\n"),
     Lit("    for i in range(batch_rows):\n"),
     Lit("        # Create a random timestamp in the past 30 days\n"),
     Lit("        random_minutes = random.randint(1, 30 * 24 * 60)  # 30 days in minutes\n"),
     Lit("        timestamp = datetime.now() - timedelta(minutes=random_minutes)\n"),
     Lit("        \n"),
     Lit("        # Generate random activity data\n"),
     Lit("        activity_type = random.choice(activity_types)\n"),
     Lit("        detail_template = random.choice(detail_templates)\n"),
     Lit("        detail = detail_template.format(random.choice(products))\n"),
     Lit("        \n"),
     Lit("        # Execute the prepared statement\n"),
     Lit("        session.execute(prepared_stmt, [partition_value, timestamp, activity_type, detail])\n"),
     Lit("    \n"),
     Lit("    # Small delay to avoid overwhelming the system\n"),
     Lit("    if batch < total_batches - 1:\n"),
     Lit("        time.sleep(0.01)\n"),
     Lit("\n"),
     Lit("elapsed_time = time.time() - start_time\n"),
     Lit("print(f\"Successfully inserted "), Slot("num_rows"), Lit(" rows into the same partition.\")\n"),
     Lit("print(f\"All rows have '"), Slot("partition_key"), Lit("' = '"), Slot("partition_value"), Lit("'\")\n"),
     Lit("print(f\"Total time: {elapsed_time:.2f} seconds\")\n"),
     Lit("\n"),
     Lit("# Demonstrate proper querying techniques for large partitions\n"),
     Lit("print(\"\\n--- Querying Large Partition ---\")\n"),
     Lit("\n"),
     Lit("# 1. BAD QUERY: Query all rows for the user (will be inefficient for large partitions)\n"),
     Lit("print(\"\\n\\u274c PROBLEMATIC QUERY (accesses entire partition):\")\n"),
     Lit("query_bad = f\"SELECT count(*) FROM "), Slot("keyspace"), Lit("."), Slot("table_name"), Lit(" WHERE "), Slot("partition_key"), Lit(" = ?\"\n"),
     Lit("prepared_bad = session.prepare(query_bad)\n"),
     Lit("\n"),
     Lit("start_time = time.time()\n"),
     Lit("result = session.execute(prepared_bad, [partition_value])\n"),
     Lit("end_time = time.time()\n"),
     Lit("\n"),
     Lit("count = result.one().count\n"),
     Lit("print(f\"  Retrieved {count} rows in {end_time - start_time:.4f} seconds\")\n"),
     Lit("\n"),
     Lit("# 2. GOOD QUERY: Query with time slice constraints\n"),
     Lit("print(\"\\n\\u2705 BETTER QUERY (with time slice constraints):\")\n"),
     Lit("# Using a 1-hour time slice\n"),
     Lit("now = datetime.now()\n"),
     Lit("one_hour_ago = now - timedelta(hours=1)\n"),
     Lit("\n"),
     Lit("query_good = f\"\"\"\n"),
     Lit("SELECT count(*) FROM "), Slot("keyspace"), Lit("."), Slot("table_name"), Lit(" \n"),
     Lit("WHERE "), Slot("partition_key"), Lit(" = ? \n"),
     Lit("AND activity_timestamp >= ? \n"),
     Lit("AND activity_timestamp < ?\n"),
     Lit("\"\"\"\n"),
     Lit("prepared_good = session.prepare(query_good)\n"),
     Lit("\n"),
     Lit("start_time = time.time()\n"),
     Lit("result = session.execute(prepared_good, [partition_value, one_hour_ago, now])\n"),
     Lit("end_time = time.time()\n"),
     Lit("\n"),
     Lit("count = result.one().count\n"),
     Lit("print(f\"  Retrieved {count} rows in {end_time - start_time:.4f} seconds\")\n"),
     Lit("print(f\"  (Time slice: past hour)\")\n"),
     Lit("\n"),
     Lit("# 3. Sample some data to show the contents\n"),
     Lit("print(\"\\n\\U0001f4ca Sample data from the time slice:\")\n"),
     Lit("sample_query = f\"\"\"\n"),
     Lit("SELECT * FROM "), Slot("keyspace"), Lit("."), Slot("table_name"), Lit(" \n"),
     Lit("WHERE "), Slot("partition_key"), Lit(" = ? \n"),
     Lit("AND activity_timestamp >= ? \n"),
     Lit("AND activity_timestamp < ?\n"),
     Lit("LIMIT 5\n"),
     Lit("\"\"\"\n"),
     Lit("prepared_sample = session.prepare(sample_query)\n"),
     Lit("\n"),
     Lit("rows = session.execute(prepared_sample, [partition_value, one_hour_ago, now])\n"),
     Lit("\n"),
     Lit("for i, row in enumerate(rows):\n"),
     Lit("    print(f\"\\n  Sample {i+1}:\")\n"),
     Lit("    print(f\"    "), Slot("partition_key"), Lit(": {row."), Slot("partition_key"), Lit("}\")\n"),
     Lit("    print(f\"    Timestamp: {row.activity_timestamp}\")\n"),
     Lit("    print(f\"    Activity: {row.activity_type}\")\n"),
     Lit("    print(f\"    Details: {row.details}\")\n"),
     Lit("\n"),
     Lit("print(\"\\nTo query this large partition, use: SELECT * FROM "), Slot("keyspace"), Lit("."), Slot("table_name"), Lit(" WHERE "), Slot("partition_key"), Lit(" = '"), Slot("partition_value"), Lit("';\")\n") >>

\* main.py:330-453
TemplateLwtInsertPython ==
  << Lit("\n"),
     Lit("# Connect to your Cassandra cluster\n"),
     Lit("# ... connection code will be included in the driver code template ...\n"),
     Lit("\n"),
     Lit("import uuid\n"),
     Lit("from datetime import datetime\n"),
     Lit("\n"),
     Lit("# Create the users table if it doesn't exist\n"),
     Lit("create_table_query = \"\"\"\n"),
     Lit("CREATE TABLE IF NOT EXISTS "), Slot("keyspace"), Lit("."), Slot("table_name"), Lit(" (\n"),
     Lit("    username text PRIMARY KEY,\n"),
     Lit("    email text,\n"),
     Lit("    created_at timestamp\n"),
     Lit(")\n"),
     Lit("\"\"\"\n"),
     Lit("session.execute(create_table_query)\n"),
     Lit("print(f\"Table "), Slot("keyspace"), Lit("."), Slot("table_name"), Lit(" created or verified successfully\")\n"),
     Lit("\n"),
     Lit("# Clear any existing data for our test users to ensure clean results\n"),
     Lit("session.execute(f\"DELETE FROM "), Slot("keyspace"), Lit("."), Slot("table_name"), Lit(" WHERE username = 'alice'\")\n"),
     Lit("session.execute(f\"DELETE FROM "), Slot("keyspace"), Lit("."), Slot("table_name"), Lit(" WHERE username = 'bob'\")\n"),
     Lit("\n"),
     Lit("print(\"\\n--- Running LWT INSERT Example ---\")\n"),
     Lit("\n"),
     Lit("# Prepare the INSERT with IF NOT EXISTS statement (LWT)\n"),
     Lit("insert_query = f\"\"\"\n"),
     Lit("INSERT INTO "), Slot("keyspace"), Lit("."), Slot("table_name"), Lit(" (username, email, created_at)\n"),
     Lit("VALUES (?, ?, ?)\n"),
     Lit("IF NOT EXISTS\n"),
     Lit("\"\"\"\n"),
     Lit("prepared = session.prepare(insert_query)\n"),
     Lit("\n"),
     Lit("# First attempt should succeed (user doesn't exist)\n"),
     Lit("username = \"alice\"\n"),
     Lit("email = \"alice@example.com\"\n"),
     Lit("created_at = datetime.now()\n"),
     Lit("\n"),
     Lit("result = session.execute(prepared, [username, email, created_at])\n"),
     Lit("\n"),
     Lit("# The first row of the result contains a boolean [applied] field\n"),
     Lit("if result[0].applied:\n"),
     Lit("    print(f\"\\u2705 First INSERT succeeded: User '{username}' was created\")\n"),
     Lit("else:\n"),
     Lit("    print(f\"\\u274c First INSERT failed: User '{username}' already exists\")\n"),
     Lit("\n"),
     Lit("# Second attempt with the same username should fail (user already exists)\n"),
     Lit("result = session.execute(prepared, [username, \"alice_new@example.com\", datetime.now()])\n"),
     Lit("\n"),
     Lit("if result[0].applied:\n"),
     Lit("    print(f\"\\u2705 Second INSERT succeeded: User '{username}' was created\")\n"),
     Lit("else:\n"),
     Lit("    print(f\"\\u274c Second INSERT failed: User '{username}' already exists\")\n"),
     Lit("    \n"),
     Lit("# Let's also try with a different user\n"),
     Lit("username = \"bob\"\n"),
     Lit("email = \"bob@example.com\"\n"),
     Lit("created_at = datetime.now()\n"),
     Lit("\n"),
     Lit("result = session.execute(prepared, [username, email, created_at])\n"),
     Lit("print(f\"\\u2705 INSERT for user '{username}' applied: {result[0].applied}\")\n"),
     Lit("\n"),
     Lit("print(\"\\n--- Running LWT UPDATE Example ---\")\n"),
     Lit("\n"),
     Lit("# Prepare the UPDATE with IF condition\n"),
     Lit("update_query = f\"\"\"\n"),
     Lit("UPDATE "), Slot("keyspace"), Lit("."), Slot("table_name"), Lit("\n"),
     Lit("SET email = ?\n"),
     Lit("WHERE username = ?\n"),
     Lit("IF email = ?\n"),
     Lit("\"\"\"\n"),
     Lit("prepared_update = session.prepare(update_query)\n"),
     Lit("\n"),
     Lit("# Update should succeed if current email matches\n"),
     Lit("username = \"alice\"\n"),
     Lit("old_email = \"alice@example.com\"\n"),
     Lit("new_email = \"alice_updated@example.com\"\n"),
     Lit("\n"),
     Lit("result = session.execute(prepared_update, [new_email, username, old_email])\n"),
     Lit("\n"),
     Lit("if result[0].applied:\n"),
     Lit("    print(f\"\\u2705 UPDATE succeeded: Email for '{username}' was updated\")\n"),
     Lit("else:\n"),
     Lit("    print(f\"\\u274c UPDATE failed: Current email doesn't match condition\")\n"),
     Lit("    print(f\"   Current values: {dict(result[0])}\")\n"),
     Lit("\n"),
     Lit("# Verify the update with a SELECT query\n"),
     Lit("select_query = f\"SELECT * FROM "), Slot("keyspace"), Lit("."), Slot("table_name"), Lit(" WHERE username = ?\"\n"),
     Lit("prepared_select = session.prepare(select_query)\n"),
     Lit("rows = session.execute(prepared_select, [username])\n"),
     Lit("\n"),
     Lit("for row in rows:\n"),
     Lit("    print(f\"\\nUser data after update:\")\n"),
     Lit("    print(f\"  Username: {row.username}\")\n"),
     Lit("    print(f\"  Email: {row.email}\")\n"),
     Lit("    print(f\"  Created at: {row.created_at}\")\n"),
     Lit("\n"),
     Lit("print(\"\\n--- Running LWT DELETE Example ---\")\n"),
     Lit("\n"),
     Lit("# Prepare DELETE with IF condition\n"),
     Lit("delete_query = f\"\"\"\n"),
     Lit("DELETE FROM "), Slot("keyspace"), Lit("."), Slot("table_name"), Lit("\n"),
     Lit("WHERE username = ?\n"),
     Lit("IF email = ?\n"),
     Lit("\"\"\"\n"),
     Lit("prepared_delete = session.prepare(delete_query)\n"),
     Lit("\n"),
     Lit("# Try to delete with correct condition\n"),
     Lit("result = session.execute(prepared_delete, [username, new_email])\n"),
     Lit("\n"),
     Lit("if result[0].applied:\n"),
     Lit("    print(f\"\\u2705 DELETE succeeded: User '{username}' was deleted\")\n"),
     Lit("else:\n"),
     Lit("    print(f\"\\u274c DELETE failed: Email condition not met\")\n"),
     Lit("    print(f\"   Current values: {dict(result[0])}\")\n"),
     Lit("\n"),
     Lit("# Verify deletion\n"),
     Lit("rows = session.execute(prepared_select, [username])\n"),
     Lit("if not list(rows):\n"),
     Lit("    print(f\"Verified: User '{username}' has been deleted\")\n"),
     Lit("else:\n"),
     Lit("    print(f\"User '{username}' still exists in the database\")\n"),
     Lit("\n"),
     Lit("print(\"\\nLightweight Transaction (LWT) operations complete!\")\n") >>

\* main.py:455-517
TemplateLwtUpdatePython ==
  << Lit("\n"),
     Lit("# Connect to your Cassandra cluster\n"),
     Lit("# ... connection code will be included in the driver code template ...\n"),
     Lit("\n"),
     Lit("from datetime import datetime\n"),
     Lit("\n"),
     Lit("# First, ensure we have the table and some data to work with\n"),
     Lit("create_table_query = \"\"\"\n"),
     Lit("CREATE TABLE IF NOT EXISTS "), Slot("keyspace"), Lit("."), Slot("table_name"), Lit(" (\n"),
     Lit("    username text PRIMARY KEY,\n"),
     Lit("    email text,\n"),
     Lit("    created_at timestamp\n"),
     Lit(")\n"),
     Lit("\"\"\"\n"),
     Lit("session.execute(create_table_query)\n"),
     Lit("print(f\"Table "), Slot("keyspace"), Lit("."), Slot("table_name"), Lit(" created or verified successfully\")\n"),
     Lit("\n"),
     Lit("# Create a user if it doesn't exist\n"),
     Lit("session.execute(\"\"\"\n"),
     Lit("INSERT INTO "), Slot("keyspace"), Lit("."), Slot("table_name"), Lit(" (username, email, created_at)\n"),
     Lit("VALUES ('alice', 'alice@example.com', toTimestamp(now()))\n"),
     Lit("IF NOT EXISTS\n"),
     Lit("\"\"\")\n"),
     Lit("\n"),
     Lit("print(\"\\n--- Running LWT UPDATE Example ---\")\n"),
     Lit("\n"),
     Lit("# Show current value\n"),
     Lit("select_query = f\"SELECT * FROM "), Slot("keyspace"), Lit("."), Slot("table_name"), Lit(" WHERE username = 'alice'\"\n"),
     Lit("rows = session.execute(select_query)\n"),
     Lit("row = rows.one()\n"),
     Lit("print(f\"Current email for alice: {row.email if row else 'not found'}\")\n"),
     Lit("\n"),
     Lit("# Perform conditional update - should succeed\n"),
     Lit("update_query = f\"\"\"\n"),
     Lit("UPDATE "), Slot("keyspace"), Lit("."), Slot("table_name"), Lit("\n"),
     Lit("SET email = ?\n"),
     Lit("WHERE username = ?\n"),
     Lit("IF email = ?\n"),
     Lit("\"\"\"\n"),
     Lit("prepared_update = session.prepare(update_query)\n"),
     Lit("\n"),
     Lit("result = session.execute(prepared_update, [\"alice_updated@example.com\", \"alice\", \"alice@example.com\"])\n"),
     Lit("\n"),
     Lit("if result[0].applied:\n"),
     Lit("    print(f\"\\u2705 UPDATE succeeded: Email for alice was updated\")\n"),
     Lit("else:\n"),
     Lit("    print(f\"\\u274c UPDATE failed: Current email doesn't match condition\")\n"),
     Lit("    print(f\"   Current values: {dict(result[0])}\")\n"),
     Lit("\n"),
     Lit("# Try with wrong condition - should fail\n"),
     Lit("result = session.execute(prepared_update, [\"alice_updated_again@example.com\", \"alice\", \"wrong@example.com\"])\n"),
     Lit("\n"),
     Lit("if result[0].applied:\n"),
     Lit("    print(f\"\\u2705 UPDATE succeeded: Email for alice was updated again\")\n"),
     Lit("else:\n"),
     Lit("    print(f\"\\u274c UPDATE failed: Email condition not met\")\n"),
     Lit("    print(f\"   Current values: {dict(result[0])}\")\n"),
     Lit("\n"),
     Lit("# Verify final value\n"),
     Lit("rows = session.execute(select_query)\n"),
     Lit("row = rows.one()\n"),
     Lit("print(f\"Final email for alice: {row.email if row else 'not found'}\")\n") >>

\* main.py:534-607
TemplateBulkInsertPython ==
  << Lit("\n"),
     Lit("# Connect to your Cassandra cluster\n"),
     Lit("# ... connection code will be included in the driver code template ...\n"),
     Lit("\n"),
     Lit("import uuid\n"),
     Lit("import random\n"),
     Lit("from datetime import datetime, timedelta\n"),
     Lit("\n"),
     Lit("# Define sample data generators\n"),
     Lit("first_names = [\"James\", \"Mary\", \"John\", \"Patricia\", \"Robert\", \"Jennifer\", \"Michael\", \"Linda\", \"William\", \"Elizabeth\", \n"),
     Lit("               \"David\", \"Barbara\", \"Richard\", \"Susan\", \"Joseph\", \"Jessica\", \"Thomas\", \"Sarah\", \"Charles\", \"Karen\"]\n"),
     Lit("last_names = [\"Smith\", \"Johnson\", \"Williams\", \"Jones\", \"Brown\", \"Davis\", \"Miller\", \"Wilson\", \"Moore\", \"Taylor\", \n"),
     Lit("              \"Anderson\", \"Thomas\", \"Jackson\", \"White\", \"Harris\", \"Martin\", \"Thompson\", \"Garcia\", \"Martinez\", \"Robinson\"]\n"),
     Lit("domains = [\"gmail.com\", \"yahoo.com\", \"hotmail.com\", \"outlook.com\", \"example.com\", \"mail.org\"]\n"),
     Lit("\n"),
     Lit("# Create the users table if it doesn't exist\n"),
     Lit("create_table_query = \"\"\"\n"),
     Lit("CREATE TABLE IF NOT EXISTS "), Slot("keyspace"), Lit("."), Slot("table_name"), Lit(" (\n"),
     Lit("    id uuid PRIMARY KEY,\n"),
     Lit("    name text,\n"),
     Lit("    email text,\n"),
     Lit("    created_at timestamp\n"),
     Lit(")\n"),
     Lit("\"\"\"\n"),
     Lit("session.execute(create_table_query)\n"),
     Lit("print(f\"Table "), Slot("keyspace"), Lit("."), Slot("table_name"), Lit(" created or verified successfully\")\n"),
     Lit("\n"),
     Lit("# Prepare the insert statement for better performance\n"),
     Lit("prepared_stmt = session.prepare(\"\"\"\n"),
     Lit("    INSERT INTO "), Slot("keyspace"), Lit("."), Slot("table_name"), Lit(" (id, name, email, created_at)\n"),
     Lit("    VALUES (?, ?, ?, ?)\n"),
     Lit("\"\"\")\n"),
     Lit("\n"),
     Lit("print(f\"Inserting "), Slot("num_rows"), Lit(" rows into "), Slot("keyspace"), Lit("."), Slot("table_name"), Lit("...\")\n"),
     Lit("\n"),
     Lit("# Track timing\n"),
     Lit("start_time = datetime.now()\n"),
     Lit("\n"),
     Lit("for i in range("), Slot("num_rows"), Lit("):\n"),
     Lit("    # Generate random user data\n"),
     Lit("    user_id = uuid.uuid4()\n"),
     Lit("    first_name = random.choice(first_names)\n"),
     Lit("    last_name = random.choice(last_names)\n"),
     Lit("    name = f\"{first_name} {last_name}\"\n"),
     Lit("    email = f\"{first_name.lower()}.{last_name.lower()}@{random.choice(domains)}\"\n"),
     Lit("    \n"),
     Lit("    # Random date in the past year\n"),
     Lit("    days_ago = random.randint(0, 365)\n"),
     Lit("    created_at = datetime.now() + timedelta(days=days_ago)\n"),
     Lit("    \n"),
     Lit("    # Insert the row\n"),
     Lit("    session.execute(prepared_stmt, [user_id, name, email, created_at])\n"),
     Lit("    \n"),
     Lit("    # Show progress for larger inserts\n"),
     Lit("    if "), Slot("num_rows"), Lit(" > 100 and i % ("), Slot("num_rows"), Lit(" // 10) == 0:\n"),
     Lit("        print(f\"Progress: {i+1}/"), Slot("num_rows"), Lit(" rows inserted ({(i+1)*100/"), Slot("num_rows"), Lit(":.1f}%)\")\n"),
     Lit("\n"),
     Lit("elapsed_time = (datetime.now() - start_time).total_seconds()\n"),
     Lit("print(f\"\\u2705 Successfully inserted "), Slot("num_rows"), Lit(" rows into "), Slot("keyspace"), Lit("."), Slot("table_name"), Lit("\")\n"),
     Lit("print(f\"Total time: {elapsed_time:.2f} seconds\")\n"),
     Lit("\n"),
     Lit("# Sample the data we just inserted\n"),
     Lit("print(\"\\n--- Sample Data ---\")\n"),
     Lit("rows = session.execute(f\"SELECT * FROM "), Slot("keyspace"), Lit("."), Slot("table_name"), Lit(" LIMIT 5\")\n"),
     Lit("\n"),
     Lit("for i, row in enumerate(rows):\n"),
     Lit("    print(f\"\\nRow {i+1}:\")\n"),
     Lit("    print(f\"  ID: {row.id}\")\n"),
     Lit("    print(f\"  Name: {row.name}\")\n"),
     Lit("    print(f\"  Email: {row.email}\")\n"),
     Lit("    print(f\"  Created At: {row.created_at}\")\n"),
     Lit("\n"),
     Lit("print(f\"\\nTo view all data: SELECT * FROM "), Slot("keyspace"), Lit("."), Slot("table_name"), Lit(";\")\n") >>

\* main.py:628-638
TemplateSelectCountPython ==
  << Lit("\n"),
     Lit("# Connect to your Cassandra cluster\n"),
     Lit("# ... connection code will be included in the driver code template ...\n"),
     Lit("\n"),
     Lit("# Count rows in the table\n"),
     Lit("count_query = f\"SELECT COUNT(*) FROM "), Slot("keyspace"), Lit("."), Slot("table_name"), Lit("\"\n"),
     Lit("result = session.execute(count_query)\n"),
     Lit("count = result.one().count  # The count is in the first column of the first row\n"),
     Lit("\n"),
     Lit("print(f\"Total rows in "), Slot("keyspace"), Lit("."), Slot("table_name"), Lit(": {count}\")\n") >>

\* main.py:640-680
TemplateSelectPython ==
  << Lit("\n"),
     Lit("# Connect to your Cassandra cluster\n"),
     Lit("# ... connection code will be included in the driver code template ...\n"),
     Lit("\n"),
     Lit("import time\n"),
     Lit("\n"),
     Lit("# Execute query to select data\n"),
     Lit("query = f\"SELECT * FROM "), Slot("keyspace"), Lit("."), Slot("table_name"), Lit(" LIMIT "), Slot("limit"), Lit("\"\n"),
     Lit("print(f\"Executing query: {query}\")\n"),
     Lit("\n"),
     Lit("# Track query performance\n"),
     Lit("start_time = time.time()\n"),
     Lit("rows = session.execute(query)\n"),
     Lit("end_time = time.time()\n"),
     Lit("\n"),
     Lit("# Convert rows to a list to get row count (this consumes the iterator)\n"),
     Lit("results = list(rows)\n"),
     Lit("count = len(results)\n"),
     Lit("\n"),
     Lit("print(f\"Query executed in {end_time - start_time:.4f} seconds\")\n"),
     Lit("print(f\"Retrieved {count} rows from "), Slot("keyspace"), Lit("."), Slot("table_name"), Lit("\")\n"),
     Lit("\n"),
     Lit("# Print column names\n"),
     Lit("if count > 0:\n"),
     Lit("    print(\"\\nColumns:\")\n"),
     Lit("    for col_name in results[0]._fields:\n"),
     Lit("        print(f\"  - {col_name}\")\n"),
     Lit("\n"),
     Lit("# Print the data\n"),
     Lit("print(\"\\nData:\")\n"),
     Lit("for i, row in enumerate(results):\n"),
     Lit("    print(f\"\\nRow {i+1}:\")\n"),
     Lit("    for field_name in row._fields:\n"),
     Lit("        print(f\"  {field_name}: {getattr(row, field_name)}\")\n"),
     Lit("\n"),
     Lit("# Show CQL for more queries\n"),
     Lit("print(f\"\\nMore query examples:\")\n"),
     Lit("print(f\"1. Count rows: SELECT COUNT(*) FROM "), Slot("keyspace"), Lit("."), Slot("table_name"), Lit(";\")\n"),
     Lit("print(f\"2. Get specific columns: SELECT id, name FROM "), Slot("keyspace"), Lit("."), Slot("table_name"), Lit(" LIMIT 5;\")\n"),
     Lit("print(f\"3. Filter by a column: SELECT * FROM "), Slot("keyspace"), Lit("."), Slot("table_name"), Lit(" WHERE <column> = <value> ALLOW FILTERING;\")\n") >>

\* main.py:685-701
TemplateUnknown ==
  << Lit("\n"),
     Lit("# Connect to your Cassandra cluster\n"),
     Lit("# ... connection code will be included in the driver code template ...\n"),
     Lit("\n"),
     Lit("# Execute the query\n"),
     Lit("query = \""), Slot("query"), Lit("\"  # This is your natural language query\n"),
     Lit("print(f\"Executing query: {query}\")\n"),
     Lit("\n"),
     Lit("# This is a placeholder. In a real application, you would perform\n"),
     Lit("# appropriate actions based on the query intent.\n"),
     Lit("result = session.execute(\"SELECT * FROM system.local\")\n"),
     Lit("print(\"Query executed\")\n"),
     Lit("\n"),
     Lit("# Print some example results\n"),
     Lit("for row in result:\n"),
     Lit("    print(row)\n") >>
\* main.py:313, 519, 609, 682: the strings returned for a driver other than python
JavaLargePartition == "Java driver code for large partition example"
JavaLwt == "Java driver code for LWT example"
JavaBulkInsert == "Java driver code for inserting rows"
JavaSelect == "Java driver code for selecting data"

----------------------------------------------------------------------------
(* parse_natural_language_query                                            *)

\* the text trimmed but not lower-cased
NormalizeTrimOnly(q) == Strip(q)

\* main.py:148
Normalize(q) == Strip(Lower(q))

\* the LargePartition test without its "generate" with "partition" disjunct
LargePartitionPredicateNoGenerate(q) ==
  \/ Contains(q, "large partition")
  \/ Contains(q, "big partition")
  \/ Contains(q, "test partition")
  \/ (Contains(q, "partition") /\ Contains(q, "size"))
  \/ Contains(q, "create a large partition")
  \/ Contains(q, "large partition example")
  \/ Strip(q) = "create large partition"
  \/ Contains(q, "partition large")

\* main.py:151
LargePartitionPredicate(q) ==
  \/ Contains(q, "large partition")
  \/ Contains(q, "big partition")
  \/ Contains(q, "test partition")
  \/ (Contains(q, "partition") /\ Contains(q, "size"))
  \/ (Contains(q, "generate") /\ Contains(q, "partition"))
  \/ Contains(q, "create a large partition")
  \/ Contains(q, "large partition example")
  \/ Strip(q) = "create large partition"
  \/ Contains(q, "partition large")

\* the LWT test without its "conditional" disjunct
LwtPredicateNoConditional(q) ==
  \/ Contains(q, "lightweight")
  \/ Contains(q, "lwt")
  \/ Contains(q, "if not exists")

\* main.py:316
LwtPredicate(q) ==
  \/ Contains(q, "lightweight")
  \/ Contains(q, "lwt")
  \/ Contains(q, "if not exists")
  \/ Contains(q, "conditional")
  \/ Contains(q, "create lwt")
  \/ Contains(q, "lwt example")
  \/ Strip(q) = "lwt"
  \/ Contains(q, "use lwt")

\* main.py:522
BulkInsertPredicate(q) ==
  /\ (Contains(q, "insert") \/ Contains(q, "add") \/ Contains(q, "create"))
  /\ (Contains(q, "row") \/ Contains(q, "record") \/ Contains(q, "data"))

\* main.py:612
SelectPredicate(q) ==
  \/ Contains(q, "select")
  \/ Contains(q, "query")
  \/ Contains(q, "get")
  \/ Contains(q, "retrieve")
  \/ Contains(q, "show")
  \/ Contains(q, "list")
  \/ Contains(q, "all rows")
  \/ Contains(q, "all records")

\* the LargePartition branch reading its row count from the first digits
\* anywhere in the text
LargePartitionBranchAnyDigits(q, ks, dt) ==
  LET num_rows_match == SearchDigits(q)
      num_rows == IF num_rows_match.found
                    THEN ParseInt(num_rows_match.group1.text) ELSE 1000
      table_match == SearchKeywordWord(q, "table")
      table_name == IF table_match.found THEN table_match.group1.text
                    ELSE "user_activity"
      key_match == SearchKeywordWord(q, "key")
      partition_key == IF key_match.found THEN key_match.group1.text ELSE "user_id"
      partition_value == "large_partition_user"
      env == [keyspace |-> ks, table_name |-> table_name,
              partition_key |-> partition_key, num_rows |-> IntToStr(num_rows),
              partition_value |-> partition_value]
  IN  [category |-> "LargePartition",
       params |-> [num_rows |-> num_rows, table_name |-> table_name,
                   partition_key |-> partition_key],
       code |-> IF dt = "python" THEN Render(TemplateLargePartitionPython, env)
                ELSE JavaLargePartition]

\* main.py:152-313
LargePartitionBranch(q, ks, dt) ==
  LET num_rows_match == SearchDigitsRows(q)
      num_rows == IF num_rows_match.found
                    THEN ParseInt(num_rows_match.group1.text) ELSE 1000
      table_match == SearchKeywordWord(q, "table")
      table_name == IF table_match.found THEN table_match.group1.text
                    ELSE "user_activity"
      key_match == SearchKeywordWord(q, "key")
      partition_key == IF key_match.found THEN key_match.group1.text ELSE "user_id"
      partition_value == "large_partition_user"
      env == [keyspace |-> ks, table_name |-> table_name,
              partition_key |-> partition_key, num_rows |-> IntToStr(num_rows),
              partition_value |-> partition_value]
  IN  [category |-> "LargePartition",
       params |-> [num_rows |-> num_rows, table_name |-> table_name,
                   partition_key |-> partition_key],
       code |-> IF dt = "python" THEN Render(TemplateLargePartitionPython, env)
                ELSE JavaLargePartition]

\* the LWT branch with no template for the update operation
LwtBranchNoUpdateTemplate(q, ks, dt) ==
  LET table_match == SearchKeywordWord(q, "table")
      table_name == IF table_match.found THEN table_match.group1.text ELSE "users"
      operation_type == IF Contains(q, "update") THEN "update" ELSE "insert"
      env == [keyspace |-> ks, table_name |-> table_name]
  IN  [category |-> IF operation_type = "update" THEN "LwtUpdate" ELSE "LwtInsert",
       params |-> [table_name |-> table_name, operation_type |-> operation_type],
       code |-> IF dt = "python"
                  THEN IF operation_type = "insert"
                         THEN Render(TemplateLwtInsertPython, env)
                         ELSE ""
                  ELSE JavaLwt]

\* the LWT branch returning its python templates whatever the driver
LwtBranchAnyDriver(q, ks, dt) ==
  LET table_match == SearchKeywordWord(q, "table")
      table_name == IF table_match.found THEN table_match.group1.text ELSE "users"
      operation_type == IF Contains(q, "update") THEN "update" ELSE "insert"
      env == [keyspace |-> ks, table_name |-> table_name]
  IN  [category |-> IF operation_type = "update" THEN "LwtUpdate" ELSE "LwtInsert",
       params |-> [table_name |-> table_name, operation_type |-> operation_type],
       code |-> IF operation_type = "insert"
                  THEN Render(TemplateLwtInsertPython, env)
                  ELSE Render(TemplateLwtUpdatePython, env)]

\* main.py:317-519
LwtBranch(q, ks, dt) ==
  LET table_match == SearchKeywordWord(q, "table")
      table_name == IF table_match.found THEN table_match.group1.text ELSE "users"
      operation_type == IF Contains(q, "update") THEN "update" ELSE "insert"
      env == [keyspace |-> ks, table_name |-> table_name]
  IN  [category |-> IF operation_type = "update" THEN "LwtUpdate" ELSE "LwtInsert",
       params |-> [table_name |-> table_name, operation_type |-> operation_type],
       code |-> IF dt = "python"
                  THEN IF operation_type = "insert"
                         THEN Render(TemplateLwtInsertPython, env)
                         ELSE Render(TemplateLwtUpdatePython, env)
                  ELSE JavaLwt]

\* the BulkInsert branch reading its row count with the pattern of line 153
BulkInsertBranchRowsPattern(q, ks, dt) ==
  LET num_rows_match == SearchDigitsRows(q)
      num_rows == IF num_rows_match.found
                    THEN ParseInt(num_rows_match.group1.text) ELSE 10
      table_match == SearchKeywordWordAlt(q, "table", "into")
      table_name == IF table_match.found
                      THEN IF table_match.group1.present
                             THEN table_match.group1.text
                             ELSE table_match.group2.text
                      ELSE "users"
      env == [keyspace |-> ks, table_name |-> table_name,
              num_rows |-> IntToStr(num_rows)]
  IN  [category |-> "BulkInsert",
       params |-> [num_rows |-> num_rows, table_name |-> table_name],
       code |-> IF dt = "python" THEN Render(TemplateBulkInsertPython, env)
                ELSE JavaBulkInsert]

\* main.py:523-609
BulkInsertBranch(q, ks, dt) ==
  LET num_rows_match == SearchDigits(q)
      num_rows == IF num_rows_match.found
                    THEN ParseInt(num_rows_match.group1.text) ELSE 10
      table_match == SearchKeywordWordAlt(q, "table", "into")
      table_name == IF table_match.found
                      THEN IF table_match.group1.present
                             THEN table_match.group1.text
                             ELSE table_match.group2.text
                      ELSE "users"
      env == [keyspace |-> ks, table_name |-> table_name,
              num_rows |-> IntToStr(num_rows)]
  IN  [category |-> "BulkInsert",
       params |-> [num_rows |-> num_rows, table_name |-> table_name],
       code |-> IF dt = "python" THEN Render(TemplateBulkInsertPython, env)
                ELSE JavaBulkInsert]

\* the Select branch with the table taken from `table <identifier>` only
SelectBranchTableOnly(q, ks, dt) ==
  LET table_match == SearchKeywordWord(q, "table")
      table_name == IF table_match.found THEN table_match.group1.text ELSE "users"
      count_query == Contains(q, "count")
      limit_match == SearchKeywordDigits(q, "limit")
      limit == IF limit_match.found THEN ParseInt(limit_match.group1.text) ELSE 10
      env == [keyspace |-> ks, table_name |-> table_name, limit |-> IntToStr(limit)]
  IN  [category |-> IF count_query THEN "SelectCount" ELSE "Select",
       params |-> [table_name |-> table_name, count_query |-> count_query,
                   limit |-> limit],
       code |-> IF dt = "python"
                  THEN IF count_query
                         THEN Render(TemplateSelectCountPython, env)
                         ELSE Render(TemplateSelectPython, env)
                  ELSE JavaSelect]

\* the Select branch taking count for a count query only as a whole word
SelectBranchCountWord(q, ks, dt) ==
  LET table_match == SearchKeywordWordAlt(q, "from", "table")
      table_name == IF table_match.found
                      THEN IF table_match.group1.present
                             THEN table_match.group1.text
                             ELSE table_match.group2.text
                      ELSE "users"
      count_query == Contains(" " \o q \o " ", " count ")
      limit_match == SearchKeywordDigits(q, "limit")
      limit == IF limit_match.found THEN ParseInt(limit_match.group1.text) ELSE 10
      env == [keyspace |-> ks, table_name |-> table_name, limit |-> IntToStr(limit)]
  IN  [category |-> IF count_query THEN "SelectCount" ELSE "Select",
       params |-> [table_name |-> table_name, count_query |-> count_query,
                   limit |-> limit],
       code |-> IF dt = "python"
                  THEN IF count_query
                         THEN Render(TemplateSelectCountPython, env)
                         ELSE Render(TemplateSelectPython, env)
                  ELSE JavaSelect]

\* the Select branch looking for `from <identifier>` before `table <identifier>`
SelectBranchFromFirst(q, ks, dt) ==
  LET from_match == SearchKeywordWord(q, "from")
      table_match == SearchKeywordWord(q, "table")
      table_name == IF from_match.found THEN from_match.group1.text
                    ELSE IF table_match.found THEN table_match.group1.text
                    ELSE "users"
      count_query == Contains(q, "count")
      limit_match == SearchKeywordDigits(q, "limit")
      limit == IF limit_match.found THEN ParseInt(limit_match.group1.text) ELSE 10
      env == [keyspace |-> ks, table_name |-> table_name, limit |-> IntToStr(limit)]
  IN  [category |-> IF count_query THEN "SelectCount" ELSE "Select",
       params |-> [table_name |-> table_name, count_query |-> count_query,
                   limit |-> limit],
       code |-> IF dt = "python"
                  THEN IF count_query
                         THEN Render(TemplateSelectCountPython, env)
                         ELSE Render(TemplateSelectPython, env)
                  ELSE JavaSelect]

\* main.py:613-682
SelectBranch(q, ks, dt) ==
  LET table_match == SearchKeywordWordAlt(q, "from", "table")
      table_name == IF table_match.found
                      THEN IF table_match.group1.present
                             THEN table_match.group1.text
                             ELSE table_match.group2.text
                      ELSE "users"
      count_query == Contains(q, "count")
      limit_match == SearchKeywordDigits(q, "limit")
      limit == IF limit_match.found THEN ParseInt(limit_match.group1.text) ELSE 10
      env == [keyspace |-> ks, table_name |-> table_name, limit |-> IntToStr(limit)]
  IN  [category |-> IF count_query THEN "SelectCount" ELSE "Select",
       params |-> [table_name |-> table_name, count_query |-> count_query,
                   limit |-> limit],
       code |-> IF dt = "python"
                  THEN IF count_query
                         THEN Render(TemplateSelectCountPython, env)
                         ELSE Render(TemplateSelectPython, env)
                  ELSE JavaSelect]

\* the fallback with the time of generation written into the code
UnknownBranchStamped(q, ks, dt) ==
  [category |-> "Unknown",
   params |-> [query |-> q],
   code |-> Render(TemplateUnknown, [query |-> q]) \o "# generated at " \o IntToStr(clock) \o "\n"]

\* main.py:684-701: query is the local rebound in line 148
UnknownBranch(q, ks, dt) ==
  [category |-> "Unknown",
   params |-> [query |-> q],
   code |-> Render(TemplateUnknown, [query |-> q])]

\* the cascade with a BulkInsert branch that returns for python only
ParseFallsThrough(raw, ks, dt) ==
  LET q == Normalize(raw)
  IN  IF LargePartitionPredicate(q) THEN LargePartitionBranch(q, ks, dt)
      ELSE IF LwtPredicate(q) THEN LwtBranch(q, ks, dt)
      ELSE IF BulkInsertPredicate(q) /\ dt = "python" THEN BulkInsertBranch(q, ks, dt)
      ELSE IF SelectPredicate(q) THEN SelectBranch(q, ks, dt)
      ELSE UnknownBranch(q, ks, dt)

\* the cascade with the BulkInsert test moved to the front
ParseBulkInsertFirst(raw, ks, dt) ==
  LET q == Normalize(raw)
  IN  IF BulkInsertPredicate(q) THEN BulkInsertBranch(q, ks, dt)
      ELSE IF LargePartitionPredicate(q) THEN LargePartitionBranch(q, ks, dt)
      ELSE IF LwtPredicate(q) THEN LwtBranch(q, ks, dt)
      ELSE IF SelectPredicate(q) THEN SelectBranch(q, ks, dt)
      ELSE UnknownBranch(q, ks, dt)

\* main.py:143-701: the cascade of if statements, each of which returns
ParseNaturalLanguageQuery(raw, ks, dt) ==
  LET q == Normalize(raw)
  IN  IF LargePartitionPredicate(q) THEN LargePartitionBranch(q, ks, dt)
      ELSE IF LwtPredicate(q) THEN LwtBranch(q, ks, dt)
      ELSE IF BulkInsertPredicate(q) THEN BulkInsertBranch(q, ks, dt)
      ELSE IF SelectPredicate(q) THEN SelectBranch(q, ks, dt)
      ELSE UnknownBranch(q, ks, dt)

----------------------------------------------------------------------------
(* Inputs                                                                  *)

\* number of vocabulary phrases joined by single spaces into a query
MaxWords == 2

Vocabulary ==
  { "large partition", "partition", "size", "lwt", "conditional", "update",
    "insert", "rows", "address", "select", "count", "asdkjasd",
    "5", "007", "table orders", "into", "into items", "limit 3",
    "from events" }

\* the queries of the spec's examples and of the repository's test scripts,
\* and texts with upper case, surrounding white space and several keywords
ExampleQueries ==
  { "use lwt", "create lwt example", "lightweight transaction", "if not exists",
    "conditional update", "use lightweight transactions",
    "insert 5 rows", "insert rows into orders", "select table orders limit 5",
    "count rows", "asdkjasd", "ASDKJASD", "  Use LWT \n",
    "insert 5 rows into table orders", "insert data into orders table items",
    "add 12 records\tto table  events limit 3",
    "generate partition with 250 rows table clicks key tenant",
    "large partition insert 40 rows", "lwt insert 3 rows",
    "show all rows from events limit 7", "get together", "Hello World",
    "insert 0 rows", "large partition with 0 rows", "select table orders limit 0",
    "select count from events limit 4", "list table orders from events",
    "list accounts", "lwt for updated_at",
    "select from Events limit 7", "Generate Partition Table Clicks Key Tenant",
    "create a large partition", "large partition example",
    "create large partition", "test partition 12 5 rows monkey business",
    "big partition 30 rowsets", "select into items",
    "materialized view", "create materialized view", "create mv", "mv",
    "create a materialized view",
    "create materialized view for table orders",
    "materialized view with customer_id primary key" }

\* the words a text of more than two phrases is extended with
ExtensionWords == {"large partition", "lwt", "insert", "rows", "select", "5"}

RECURSIVE Phrases(_)
\* the texts of 1..n phrases: any two of the vocabulary, then extension words
Phrases(n) ==
  IF n <= 0 THEN {}
  ELSE IF n = 1 THEN Vocabulary
  ELSE LET shorter == Phrases(n - 1)
           words == IF n = 2 THEN Vocabulary ELSE ExtensionWords
       IN  shorter \cup {p \o " " \o w : p \in shorter, w \in words}

Queries == ExampleQueries \cup Phrases(MaxWords)

Keyspaces == {"test_keyspace", "My KS", " Ks_2 "}
DriverTypes == {"python", "java", "ruby"}

\* the arguments of the direct calls: every phrase with the keyspace of the
\* test scripts, the example queries with every keyspace
ParseInputs ==
  (Phrases(MaxWords) \X {"test_keyspace"} \X DriverTypes)
  \cup (ExampleQueries \X Keyspaces \X DriverTypes)

----------------------------------------------------------------------------
(* The request boundary: the pydantic models and handle_query              *)

NotEmpty(v) == v # "" /\ Strip(v) # ""

\* main.py:40-80: the validators of ConnectionConfig (the base64 decoding of
\* secure_bundle is not modelled: the bundles drawn are valid base64 or empty)
ConfigValid(config) ==
  /\ NotEmpty(config.token)
  /\ NotEmpty(config.keyspace)
  /\ NotEmpty(config.region)
  /\ NotEmpty(config.secure_bundle)

\* main.py:132-141: QueryRequest; mode is a Dict[str, str], which no
\* validator inspects
RequestValid(req) ==
  /\ NotEmpty(req.query)
  /\ ConfigValid(req.config)

\* the model instance handle_query receives: every validator returns v.strip()
Validated(req) ==
  [query |-> Strip(req.query),
   config |-> [token |-> Strip(req.config.token),
               keyspace |-> Strip(req.config.keyspace),
               region |-> Strip(req.config.region),
               secure_bundle |-> Strip(req.config.secure_bundle)],
   mode |-> req.mode]

\* dict.get(key, default)
DictGet(d, key, default) == IF key \in DOMAIN d THEN d[key] ELSE default

GoodConfig ==
  [token |-> "test-token", keyspace |-> "test_keyspace", region |-> "us-east1",
   secure_bundle |-> "dGVzdA=="]

Configs ==
  { GoodConfig,
    [GoodConfig EXCEPT !.keyspace = " My KS "],
    [GoodConfig EXCEPT !.keyspace = " "],
    [GoodConfig EXCEPT !.token = ""],
    [GoodConfig EXCEPT !.secure_bundle = ""] }

ModeValues == {"natural_language", "driver", "execute", "bogus"}
DriverTypeValues == {"python", "java", "ruby"}

\* the dictionaries a client can send as "mode"
ModeDicts ==
  {<<>>}
  \cup {[k \in {"mode"} |-> m] : m \in ModeValues}
  \cup {[k \in {"driver_type"} |-> d] : d \in DriverTypeValues}
  \cup {[mode |-> m, driver_type |-> d] : m \in ModeValues, d \in DriverTypeValues}

\* the CQL text the driver-mode test submits: an insert guarded by IF NOT EXISTS
DirectCqlQueries ==
  { "INSERT INTO test_keyspace.users (username, email, created_at)\nVALUES (?, ?, ?)\nIF NOT EXISTS" }

RequestQueries ==
  ExampleQueries \cup Vocabulary \cup DirectCqlQueries \cup {"", "  "}

Requests ==
  {[query |-> q, config |-> c, mode |-> m] :
     q \in RequestQueries, c \in Configs, m \in ModeDicts}

NoCall == [category |-> "none", params |-> <<>>, code |-> ""]
NoRequest == [query |-> "", config |-> GoodConfig, mode |-> <<>>]
NoResponse == [status |-> 0]
NoMemo == [set |-> FALSE]

\* number of calls that can be in progress at the same time
MaxCalls == 2

\* main.py:37-38: the names the module binds besides its functions and classes
ModuleGlobals ==
  [VALID_MODES |-> <<"driver", "execute", "natural_language">>,
   VALID_DRIVER_TYPES |-> <<"java", "python">>]

\* the frame of a call that has not been made
NoFrame == [pc |-> "idle"]

\* no example program has been started
NoRun == [pc |-> "idle"]

Init ==
  /\ pc = "idle"
  /\ op = "none"
  /\ query = ""
  /\ keyspace = ""
  /\ driver_type = ""
  /\ category = NoCall.category
  /\ params = NoCall.params
  /\ result = NoCall.code
  /\ request = NoRequest
  /\ response = NoResponse
  /\ clock = 0
  /\ memo = NoMemo
  /\ calls = [c \in 1..MaxCalls |-> NoFrame]
  /\ globals = ModuleGlobals
  /\ script = NoRun

\* the effect of one call parse_natural_language_query(q, ks, dt)
CallParse(q, ks, dt) ==
  LET r == ParseNaturalLanguageQuery(q, ks, dt)
  IN  /\ query' = q
      /\ keyspace' = ks
      /\ driver_type' = dt
      /\ category' = r.category
      /\ params' = r.params
      /\ result' = r.code

\* a direct call, as the test scripts test_lwt_pattern.py and test_mv_direct.py make
Parse ==
  /\ pc = "idle"
  /\ \E in \in ParseInputs : CallParse(in[1], in[2], in[3])
  /\ pc' = "returned"
  /\ op' = "parse"
  /\ UNCHANGED <<request, response, clock, memo, calls, globals, script>>

\* the reply with the query text normalized as the core normalizes it
DriverCodeResponseNormalized(q, code) ==
  [original_query |-> Normalize(q), driver_code |-> code]

\* main.py:733-736
DriverCodeResponse(q, code) ==
  [original_query |-> q, driver_code |-> code]

\* main.py:718-737, behind the validation of the request model
HandleQuery ==
  /\ pc = "idle"
  /\ \E req \in Requests :
       /\ request' = req
       /\ IF ~RequestValid(req)
            THEN /\ response' = [status |-> 422]
                 /\ UNCHANGED <<query, keyspace, driver_type, category, params, result>>
            ELSE LET v == Validated(req)
                     q == Strip(v.query)
                     mode == DictGet(v.mode, "mode", "execute")
                 IN  IF mode = "natural_language"
                       THEN LET dt == DictGet(v.mode, "driver_type", "python")
                            IN  /\ CallParse(q, v.config.keyspace, dt)
                                /\ response' =
                                     [status |-> 200,
                                      body |-> DriverCodeResponse(q, result')]
                       ELSE /\ response' =
                                 [status |-> 200,
                                  body |-> [original_query |-> q,
                                            result |-> "Query processed successfully"]]
                            /\ UNCHANGED <<query, keyspace, driver_type, category,
                                           params, result>>
  /\ pc' = "returned"
  /\ op' = "handle"
  /\ UNCHANGED <<clock, memo, calls, globals, script>>

\* the call has returned: its locals are gone, the next call starts afresh
ReturnLocals ==
  /\ pc = "returned"
  /\ pc' = "idle"
  /\ op' = "none"
  /\ query' = ""
  /\ keyspace' = ""
  /\ driver_type' = ""
  /\ category' = NoCall.category
  /\ params' = NoCall.params
  /\ result' = NoCall.code
  /\ request' = NoRequest
  /\ response' = NoResponse

Return == ReturnLocals /\ UNCHANGED <<clock, memo, calls, globals, script>>

Next == Parse \/ HandleQuery \/ Return

Spec == Init /\ [][Next]_vars

----------------------------------------------------------------------------
(* Properties                                                              *)

Categories ==
  {"LargePartition", "LwtInsert", "LwtUpdate", "BulkInsert", "Select",
   "SelectCount", "Unknown"}

\* parse_natural_language_query has run and returned
Called == pc = "returned" /\ category # "none"

\* the normalized text of the call
Norm == Normalize(query)

\* the text each family of branches returns for the arguments of the call
FamilyOutputs ==
  { LargePartitionBranch(Norm, keyspace, driver_type).code,
    LwtBranch(Norm, keyspace, driver_type).code,
    BulkInsertBranch(Norm, keyspace, driver_type).code,
    SelectBranch(Norm, keyspace, driver_type).code,
    UnknownBranch(Norm, keyspace, driver_type).code }

NoFamilyPredicate(q) ==
  /\ ~LargePartitionPredicate(q)
  /\ ~LwtPredicate(q)
  /\ ~BulkInsertPredicate(q)
  /\ ~SelectPredicate(q)

\* C1: every call returns having selected exactly one of the seven
\* categories (its result is the text of one family of branches, the five
\* texts being different), and Unknown is selected exactly when none of the
\* four family predicates holds on the lower-cased, trimmed text.
C1_ExactlyOneCategory ==
  Called =>
    LET outputs == FamilyOutputs
        text == Norm
    IN  /\ category \in Categories
        /\ Cardinality(outputs) = 5
        /\ result \in outputs
        /\ (category = "Unknown") <=> NoFamilyPredicate(text)

C1_Witness ==
  /\ Called
  /\ category = "Unknown"
  /\ driver_type = "java"
  /\ NoFamilyPredicate(Norm)

\* C2: the category chosen is that of the first predicate, in the order
\* LargePartition, LWT, BulkInsert, Select family, that holds on the
\* normalized text; a later predicate never overrides an earlier one.
C2_FirstMatchWins ==
  Called =>
    LET text == Norm
        large_partition == LargePartitionPredicate(text)
        lwt == LwtPredicate(text)
        bulk_insert == BulkInsertPredicate(text)
    IN  /\ large_partition => category = "LargePartition"
        /\ (~large_partition /\ lwt)
             => category \in {"LwtInsert", "LwtUpdate"}
        /\ (~large_partition /\ ~lwt /\ bulk_insert)
             => category = "BulkInsert"
        /\ (~large_partition /\ ~lwt /\ ~bulk_insert /\ SelectPredicate(text))
             => category \in {"Select", "SelectCount"}

\* a text with a LargePartition trigger and a BulkInsert trigger
C2_Witness ==
  /\ Called
  /\ LargePartitionPredicate(Norm)
  /\ BulkInsertPredicate(Norm)
  /\ category = "LargePartition"

SlotTokens ==
  {"{keyspace}", "{table_name}", "{partition_key}", "{num_rows}", "{limit}",
   "{partition_value}"}

HasSlotToken(text) ==
  \E i \in 1..Len(text) :
    /\ CharAt(text, i) = "{"
    /\ \E t \in SlotTokens : StartsWithAt(text, i, t)

\* a token <word>
AngleTokenAt(text, i) ==
  /\ CharAt(text, i) = "<"
  /\ LET e == WordRunEnd(text, i + 1)
     IN  e >= i + 1 /\ StartsWithAt(text, e + 1, ">")

AngleTokens(text) ==
  {SubSeq(text, i, WordRunEnd(text, i + 1) + 1) :
     i \in {j \in 1..Len(text) : AngleTokenAt(text, j)}}

\* the {query} field of the fallback template left as written ({query}
\* alone also is the run-time field of the print statement the generated
\* code contains)
HasQuerySlot(text) == Contains(text, "query = \"{query}\"")

\* C4 as stated: the rendered text holds no replacement field of a template
\* and no placeholder token <word>.
C4_NoPlaceholderAtAll ==
  Called =>
    /\ ~HasSlotToken(result)
    /\ ~HasQuerySlot(result)
    /\ AngleTokens(result) = {}

\* C4, amended: every replacement field of the template has been replaced
\* by its value; the placeholder tokens <column> and <value> are part of the
\* filter example the python Select template prints, and they are the only
\* tokens of that style any output holds.
C4_SlotsResolved ==
  Called =>
    /\ ~HasSlotToken(result)
    /\ ~HasQuerySlot(result)
    /\ AngleTokens(result) =
         IF category = "Select" /\ driver_type = "python"
           THEN {"<column>", "<value>"} ELSE {}

C4_Witness ==
  /\ Called
  /\ category = "Select"
  /\ driver_type = "python"
  /\ Contains(result, " LIMIT 3\"")
  /\ AngleTokens(result) = {"<column>", "<value>"}

----------------------------------------------------------------------------
(* Determinism: a second specification in which an earlier call is kept    *)
(* and the environment (clock, random state) moves between calls.          *)

\* number of values of the environment
MaxClock == 3

DetQueries == {"use lwt", "insert 5 rows", "select table orders limit 5", "ASDKJASD"}
DetDriverTypes == {"python", "java"}

ParseDet ==
  /\ pc = "idle"
  /\ \E q \in DetQueries, ks \in Keyspaces, dt \in DetDriverTypes :
       CallParse(q, ks, dt)
  /\ pc' = "returned"
  /\ op' = "parse"
  /\ UNCHANGED <<request, response, clock, memo, calls, globals, script>>

\* the call returns and the observer keeps its arguments and result
ReturnKeep ==
  /\ ReturnLocals
  /\ UNCHANGED <<clock, calls, globals, script>>
  /\ memo' = [set |-> TRUE, query |-> query, keyspace |-> keyspace,
              driver_type |-> driver_type, result |-> result]

\* time passes, the random generator is used elsewhere
Tick ==
  /\ clock' = (clock + 1) % MaxClock
  /\ UNCHANGED <<pc, op, query, keyspace, driver_type, category, params, result,
                 request, response, memo, calls, globals, script>>

NextDet == ParseDet \/ ReturnKeep \/ Return \/ Tick

SpecDet == Init /\ [][NextDet]_vars

----------------------------------------------------------------------------

JavaSentences == {JavaLargePartition, JavaLwt, JavaBulkInsert, JavaSelect}

\* C6 as stated: for driver java the text returned is one of the fixed
\* placeholder sentences, for every category.
C6_JavaAlwaysPlaceholder ==
  (Called /\ driver_type = "java") => result \in JavaSentences

\* C6, amended: for driver java the text returned is the fixed placeholder
\* sentence of the family for every category but Unknown; for Unknown it is
\* the generic template, the same text as for python.
C6_JavaPlaceholderButUnknown ==
  (Called /\ driver_type = "java") =>
    /\ category = "LargePartition" => result = "Java driver code for large partition example"
    /\ category \in {"LwtInsert", "LwtUpdate"} => result = "Java driver code for LWT example"
    /\ category = "BulkInsert" => result = "Java driver code for inserting rows"
    /\ category \in {"Select", "SelectCount"} => result = "Java driver code for selecting data"
    /\ category = "Unknown" =>
         /\ result \notin JavaSentences
         /\ result = ParseNaturalLanguageQuery(query, keyspace, "python").code
         /\ Contains(result, "session.execute(\"SELECT * FROM system.local\")")

C6_Witness ==
  /\ Called
  /\ driver_type = "java"
  /\ category = "LwtUpdate"
  /\ result = "Java driver code for LWT example"

\* the statements the generated code executes
ExecuteCount(text) ==
  Cardinality({i \in 1..Len(text) : StartsWithAt(text, i, "session.execute(")})

\* C7 as stated: for a query that matches no predicate the output is not
\* empty, echoes the query text as the caller supplied it, and performs
\* only the read SELECT * FROM system.local, for python and for java.
C7_UnknownEchoesOriginal ==
  (Called /\ category = "Unknown" /\ driver_type \in {"python", "java"}) =>
    /\ Len(result) > 0
    /\ Contains(result, "query = \"" \o query \o "\"")
    /\ Contains(result, "session.execute(\"SELECT * FROM system.local\")")
    /\ ExecuteCount(result) = 1

----------------------------------------------------------------------------

\* the first run of digits of a text ("" when it has no digit)
FirstDigitRun(text) ==
  LET digits == {i \in 1..Len(text) : IsDigit(CharAt(text, i))}
      first == MinOf(digits)
      last == MaxOf({j \in first..Len(text) : \A k \in first..j : k \in digits})
  IN  IF digits = {} THEN "" ELSE SubSeq(text, first, last)

\* C8: for a BulkInsert query with python, the loop bound and the row-count
\* messages of the generated code use the integer value of the first run of
\* digits of the normalized text, or 10 when it has no digit; "insert 5
\* rows" gives range(5) on table users, "insert rows into orders" gives
\* range(10) on table orders.
C8_BulkInsertRowCount ==
  (Called /\ category = "BulkInsert" /\ driver_type = "python") =>
    LET run == FirstDigitRun(Norm)
        n == IF run = "" THEN 10 ELSE ParseInt(run)
        table == keyspace \o "." \o params.table_name
    IN  /\ params.num_rows = n
        /\ Contains(result, "\nfor i in range(" \o ToString(n) \o "):\n")
        /\ Contains(result, "print(f\"Inserting " \o ToString(n) \o " rows into "
                              \o table \o "...\")\n")
        /\ Contains(result, "Successfully inserted " \o ToString(n) \o " rows into "
                              \o table \o "\")\n")
        /\ Norm = "insert 5 rows" =>
             /\ Contains(result, "for i in range(5):")
             /\ params.table_name = "users"
        /\ Norm = "insert rows into orders" =>
             /\ Contains(result, "for i in range(10):")
             /\ params.table_name = "orders"

C8_Witness ==
  /\ Called
  /\ query = "insert 5 rows"
  /\ driver_type = "python"
  /\ category = "BulkInsert"
  /\ Contains(result, "for i in range(5):")
  /\ Contains(result, "INSERT INTO " \o keyspace \o ".users (id, name, email, created_at)")

\* C9 as stated: in BulkInsert the table name is the identifier after
\* `table` whenever the text holds `table <identifier>`, the identifier
\* after `into` only when it does not, and users otherwise.
C9_TableBeforeInto ==
  (Called /\ category = "BulkInsert") =>
    LET table_match == SearchKeywordWord(Norm, "table")
        into_match == SearchKeywordWord(Norm, "into")
    IN  params.table_name =
          IF table_match.found THEN table_match.group1.text
          ELSE IF into_match.found THEN into_match.group1.text
          ELSE "users"

\* the triggers C10 names
HasLwtTrigger(q) ==
  \/ Contains(q, "lwt")
  \/ Contains(q, "lightweight")
  \/ Contains(q, "if not exists")
  \/ Contains(q, "conditional")

\* the conditional clauses of the LWT templates, each a line of a statement
HasInsertGuard(code) == Contains(code, "\nIF NOT EXISTS\n")
HasUpdateGuard(code) == Contains(code, "\nIF email = ?\n")

NaturalLanguageRequest ==
  /\ op = "handle"
  /\ response.status = 200
  /\ "mode" \in DOMAIN request.mode
  /\ request.mode["mode"] = "natural_language"

\* C10: a query with an LWT trigger and no LargePartition trigger, with
\* driver python, yields code that holds the clause IF NOT EXISTS, in a
\* direct call and in the driver_code field of the reply to a
\* natural_language request; "conditional update" also yields IF email =.
C10_LwtDetected ==
  /\ (Called /\ driver_type = "python" /\ HasLwtTrigger(Norm)
        /\ ~LargePartitionPredicate(Norm))
       => /\ HasInsertGuard(result)
          /\ Norm = "conditional update" => HasUpdateGuard(result)
  /\ (NaturalLanguageRequest
        /\ "driver_type" \in DOMAIN request.mode
        /\ request.mode["driver_type"] = "python"
        /\ HasLwtTrigger(Normalize(request.query))
        /\ ~LargePartitionPredicate(Normalize(request.query)))
       => /\ DOMAIN response.body = {"original_query", "driver_code"}
          /\ HasInsertGuard(response.body.driver_code)
          /\ Normalize(request.query) = "conditional update"
               => HasUpdateGuard(response.body.driver_code)

C10_Witness ==
  /\ NaturalLanguageRequest
  /\ request.mode = [mode |-> "natural_language", driver_type |-> "python"]
  /\ request.query = "conditional update"
  /\ category = "LwtUpdate"
  /\ HasInsertGuard(response.body.driver_code)
  /\ HasUpdateGuard(response.body.driver_code)

----------------------------------------------------------------------------

\* the digits after the leftmost `kw`, white space, digit ("" when the text
\* has no such place)
DigitsAfterKeyword(text, kw) ==
  LET starts == {i \in 1..Len(text) :
                   /\ StartsWithAt(text, i, kw)
                   /\ \E j \in (i + Len(kw) + 1)..Len(text) :
                        /\ IsDigit(CharAt(text, j))
                        /\ \A k \in (i + Len(kw))..(j - 1) : IsSpace(CharAt(text, k))}
  IN  IF starts = {} THEN ""
      ELSE FirstDigitRun(SubSeq(text, MinOf(starts) + Len(kw), Len(text)))

\* the limit a select-family text asks for
LimitOf(text) ==
  LET run == DigitsAfterKeyword(text, "limit")
  IN  IF run = "" THEN 10 ELSE ParseInt(run)

\* the row-fetch statement of the Select template for a table and a limit
RowFetchStatement(ks, table, n) ==
  "\nquery = f\"SELECT * FROM " \o ks \o "." \o table \o " LIMIT " \o ToString(n) \o "\"\n"

\* C11 as stated: for a Select (non-count) query with python the row-fetch
\* statement is SELECT * FROM <keyspace>.<table_name> LIMIT <limit>, the
\* limit being the digits after `limit` (10 when absent) and the table the
\* identifier after `table` (users when the text has no `table <identifier>`).
C11_TableKeywordOnly ==
  (Called /\ category = "Select" /\ driver_type = "python") =>
    LET table_match == SearchKeywordWord(Norm, "table")
        table == IF table_match.found THEN table_match.group1.text ELSE "users"
    IN  /\ params.limit = LimitOf(Norm)
        /\ params.table_name = table
        /\ Contains(result, RowFetchStatement(keyspace, table, LimitOf(Norm)))

\* the identifier after the leftmost of `from <identifier>` and
\* `table <identifier>`, users when the text has neither
FromOrTableName(text) ==
  LET from_match == SearchKeywordWord(text, "from")
      table_match == SearchKeywordWord(text, "table")
  IN  IF from_match.found /\ (~table_match.found \/ from_match.start < table_match.start)
        THEN from_match.group1.text
      ELSE IF table_match.found THEN table_match.group1.text
      ELSE "users"

\* C11: for a Select (non-count) query with python the row-fetch statement
\* is SELECT * FROM <keyspace>.<table_name> LIMIT <limit>, the limit being
\* the integer value of the digits after `limit` (10 when absent) and the
\* table the identifier after the leftmost of `from <identifier>` and
\* `table <identifier>` (users when the text has neither); "select table
\* orders limit 5" embeds table orders and LIMIT 5.
C11_SelectStatement ==
  (Called /\ category = "Select" /\ driver_type = "python") =>
    /\ params.limit = LimitOf(Norm)
    /\ params.table_name = FromOrTableName(Norm)
    /\ Contains(result, RowFetchStatement(keyspace, FromOrTableName(Norm), LimitOf(Norm)))
    /\ Norm = "select table orders limit 5" =>
         Contains(result, "SELECT * FROM " \o keyspace \o ".orders LIMIT 5\"")

C11_Witness ==
  /\ Called
  /\ query = "select table orders limit 5"
  /\ driver_type = "python"
  /\ category = "Select"
  /\ keyspace = "My KS"
  /\ Contains(result, "query = f\"SELECT * FROM My KS.orders LIMIT 5\"")

\* C12 as stated: "count rows" with python yields code that uses a count
\* statement on a table of the keyspace and no row-fetch statement.
C12_CountRows ==
  (Called /\ Norm = "count rows" /\ driver_type = "python") =>
    /\ Contains(result, "SELECT COUNT(*) FROM " \o keyspace \o ".")
    /\ ~Contains(result, "SELECT * FROM")

\* C13 as stated: every extracted row count and every extracted limit is an
\* integer of at least 1.
C13_PositiveCounts ==
  Called =>
    /\ category \in {"LargePartition", "BulkInsert"} => params.num_rows >= 1
    /\ category \in {"Select", "SelectCount"} => params.limit >= 1

\* the words of the generated CQL after which a table is named
TableReferenceWords == {"FROM ", "INTO ", "\nUPDATE ", "TABLE IF NOT EXISTS "}

\* the python template families that name the table of the query
TableFamilies ==
  {"LargePartition", "LwtInsert", "LwtUpdate", "BulkInsert", "Select", "SelectCount"}

\* C14: in the python code of the LargePartition, LWT, BulkInsert, Select
\* and SelectCount families every table reference (after FROM, INTO, UPDATE
\* and CREATE TABLE IF NOT EXISTS) reads <keyspace>.<table_name> with the
\* keyspace exactly as the caller passed it: not lower-cased, not trimmed.
C14_KeyspaceVerbatim ==
  (Called /\ driver_type = "python" /\ category \in TableFamilies) =>
    LET reference == keyspace \o "." \o params.table_name
    IN  /\ \A i \in 1..Len(result) : \A word \in TableReferenceWords :
             StartsWithAt(result, i, word) =>
               StartsWithAt(result, i + Len(word), reference)
        /\ \E word \in TableReferenceWords : Contains(result, word \o reference)

C14_Witness ==
  /\ Called
  /\ op = "parse"
  /\ keyspace = " Ks_2 "
  /\ driver_type = "python"
  /\ category = "LwtUpdate"
  /\ Contains(result, "\nUPDATE  Ks_2 .users\n")
  /\ Contains(result, "CREATE TABLE IF NOT EXISTS  Ks_2 .users (")

\* C20: a query of the LWT family gets the update template exactly when its
\* normalized text contains "update", the insert template otherwise; a
\* query of the select family gets the count template exactly when its
\* normalized text contains "count", and the code of the count template is
\* the same whatever limit the text asks for.
C20_SubKeywordSelectsTemplate ==
  Called =>
    LET env == [keyspace |-> keyspace, table_name |-> params.table_name]
    IN  /\ category \in {"LwtInsert", "LwtUpdate"} =>
             /\ category = "LwtUpdate" <=> Contains(Norm, "update")
             /\ Render(TemplateLwtUpdatePython, env) # Render(TemplateLwtInsertPython, env)
             /\ driver_type = "python" =>
                  result = IF Contains(Norm, "update")
                             THEN Render(TemplateLwtUpdatePython, env)
                             ELSE Render(TemplateLwtInsertPython, env)
        /\ category \in {"Select", "SelectCount"} =>
             /\ category = "SelectCount" <=> Contains(Norm, "count")
             /\ driver_type = "python" =>
                  result = IF Contains(Norm, "count")
                             THEN Render(TemplateSelectCountPython, env)
                             ELSE Render(TemplateSelectPython,
                                         [keyspace |-> keyspace,
                                          table_name |-> params.table_name,
                                          limit |-> ToString(params.limit)])

C20_Witness ==
  /\ Called
  /\ query = "select count from events limit 4"
  /\ driver_type = "python"
  /\ category = "SelectCount"
  /\ params.limit = 4
  /\ Contains(result, "SELECT COUNT(*) FROM " \o keyspace \o ".events\"")
  /\ ~Contains(result, "LIMIT 4")
----------------------------------------------------------------------------

\* a request to handle_query has been answered
Answered == pc = "returned" /\ op = "handle"

\* the value of a key of the mode dictionary of the request ("" when absent)
ModeOf(key) == IF key \in DOMAIN request.mode THEN request.mode[key] ELSE ""

\* C15 as stated: a natural_language request whose driver_type is neither
\* python nor java gets a client error response, and
\* parse_natural_language_query is not invoked for it.
C15_UnknownDriverRejected ==
  (/\ Answered
   /\ ModeOf("mode") = "natural_language"
   /\ "driver_type" \in DOMAIN request.mode
   /\ ModeOf("driver_type") \notin {"python", "java"}) =>
    /\ response.status \in 400..499
    /\ category = "none"

\* C16: every accepted natural_language request is answered with exactly
\* the two fields original_query and driver_code; original_query is the
\* submitted query without its surrounding white space and in its own
\* casing, driver_code is what parse_natural_language_query returns for that
\* text, the keyspace of the accepted configuration and the driver_type of
\* the mode (python when the mode has none).
C16_Envelope ==
  (Answered /\ RequestValid(request) /\ ModeOf("mode") = "natural_language") =>
    LET trimmed == Strip(request.query)
        dt == IF "driver_type" \in DOMAIN request.mode
                THEN request.mode["driver_type"] ELSE "python"
    IN  /\ response.status = 200
        /\ DOMAIN response.body = {"original_query", "driver_code"}
        /\ response.body.original_query = trimmed
        /\ query = trimmed
        /\ keyspace = Strip(request.config.keyspace)
        /\ driver_type = dt
        /\ response.body.driver_code = result
        /\ result = ParseNaturalLanguageQuery(trimmed, keyspace, dt).code

C16_Witness ==
  /\ Answered
  /\ request.query = "  Use LWT \n"
  /\ request.config.keyspace = " My KS "
  /\ request.mode = [mode |-> "natural_language", driver_type |-> "python"]
  /\ response.status = 200
  /\ response.body.original_query = "Use LWT"
  /\ Contains(response.body.driver_code, "INSERT INTO My KS.users (username, email, created_at)")

\* C17 as stated: a request in mode driver with driver_type python whose
\* query holds an insert guarded by IF NOT EXISTS is answered with status
\* 200 and a driver_code field that holds IF NOT EXISTS.
C17_DriverModeKeepsGuard ==
  (/\ Answered
   /\ RequestValid(request)
   /\ request.mode = [mode |-> "driver", driver_type |-> "python"]
   /\ Contains(request.query, "INSERT")
   /\ Contains(request.query, "IF NOT EXISTS")) =>
    /\ response.status = 200
    /\ "driver_code" \in DOMAIN response.body
    /\ Contains(response.body.driver_code, "IF NOT EXISTS")

\* the texts that name a materialized view
NamesMaterializedView(q) ==
  \/ Contains(q, "materialized view")
  \/ q = "mv"
  \/ q = "create mv"

\* C18 as stated: a query that names a materialized view, with driver
\* python, yields code that holds CREATE MATERIALIZED VIEW, in a direct call
\* and in the driver_code field of the reply to a natural_language request.
C18_MaterializedView ==
  (Called /\ driver_type = "python" /\ NamesMaterializedView(Norm)) =>
    /\ Contains(result, "CREATE MATERIALIZED VIEW")
    /\ op = "handle" => Contains(response.body.driver_code, "CREATE MATERIALIZED VIEW")
----------------------------------------------------------------------------
(* Concurrency: a third specification in which several calls are in        *)
(* progress side by side, each advancing one group of statements at a      *)
(* time, in any order.                                                     *)

\* the calls made side by side: the entry point and what it is given
ConcurrentCalls ==
  { [via |-> "parse", query |-> "select table orders limit 5",
     keyspace |-> "test_keyspace", driver_type |-> "python"],
    [via |-> "parse", query |-> "show all rows from events limit 7",
     keyspace |-> "My KS", driver_type |-> "python"],
    [via |-> "parse", query |-> "insert 5 rows into table orders",
     keyspace |-> "test_keyspace", driver_type |-> "python"],
    [via |-> "parse", query |-> "large partition insert 40 rows",
     keyspace |-> "test_keyspace", driver_type |-> "python"],
    [via |-> "parse", query |-> "ASDKJASD",
     keyspace |-> "test_keyspace", driver_type |-> "python"],
    [via |-> "handle", query |-> "  Use LWT \n",
     keyspace |-> " My KS ", driver_type |-> "python"],
    [via |-> "handle", query |-> "conditional update",
     keyspace |-> "test_keyspace", driver_type |-> "java"] }

\* the variables of the one-call-at-a-time specifications
sequential == <<pc, op, query, keyspace, driver_type, category, params, result,
                request, response, clock, memo, script>>

\* the bindings old with those of new added or replaced
Bindings(old, new) ==
  [name \in DOMAIN old \cup DOMAIN new |->
     IF name \in DOMAIN new THEN new[name] ELSE old[name]]

\* the value a name has inside call c: the binding of the frame, else the
\* binding of the module
Lookup(c, name) ==
  IF name \in DOMAIN calls[c].locals THEN calls[c].locals[name] ELSE globals[name]

\* assignments that bind names of the module, as under a `global` statement
StoreGlobal(c, values) ==
  [calls |-> calls, globals |-> Bindings(globals, values)]

\* main.py:148-624: every assignment of parse_natural_language_query binds
\* a name of the function, which is local to the call
StoreLocal(c, values) ==
  [calls |-> [calls EXCEPT ![c].locals = Bindings(@, values)], globals |-> globals]

\* main.py:718-729 and 143: the call is made; handle_query passes the
\* trimmed query and the keyspace of the validated configuration
Enter(c) ==
  /\ calls[c].pc = "idle"
  /\ \E call \in ConcurrentCalls :
       LET q == IF call.via = "handle" THEN Strip(call.query) ELSE call.query
           ks == IF call.via = "handle" THEN Strip(call.keyspace) ELSE call.keyspace
       IN  calls' = [calls EXCEPT ![c] =
                       [pc |-> "normalize", via |-> call.via, given |-> call,
                        original_query |-> q,
                        locals |-> [query |-> q, keyspace |-> ks,
                                    driver_type |-> call.driver_type],
                        branch |-> "", ret |-> ""]]
  /\ UNCHANGED globals
  /\ UNCHANGED sequential

\* main.py:148
NormalizeStep(c) ==
  /\ calls[c].pc = "normalize"
  /\ LET st == StoreLocal(c, [query |-> Normalize(Lookup(c, "query"))])
     IN  /\ calls' = [st.calls EXCEPT ![c].pc = "classify"]
         /\ globals' = st.globals
  /\ UNCHANGED sequential

\* main.py:151, 316, 522, 612, 685: the conditions of the cascade, in order
Classify(q) ==
  IF LargePartitionPredicate(q) THEN "LargePartition"
  ELSE IF LwtPredicate(q) THEN "Lwt"
  ELSE IF BulkInsertPredicate(q) THEN "BulkInsert"
  ELSE IF SelectPredicate(q) THEN "Select"
  ELSE "Unknown"

ClassifyStep(c) ==
  /\ calls[c].pc = "classify"
  /\ calls' = [calls EXCEPT ![c].branch = Classify(Lookup(c, "query")),
                            ![c].pc = "extract"]
  /\ UNCHANGED globals
  /\ UNCHANGED sequential

\* the names a branch assigns before it builds its text
Extracted(branch, q, ks, dt) ==
  CASE branch = "LargePartition" ->
         Bindings(LargePartitionBranch(q, ks, dt).params,
                  [partition_value |-> "large_partition_user"])
    [] branch = "Lwt" -> LwtBranch(q, ks, dt).params
    [] branch = "BulkInsert" -> BulkInsertBranch(q, ks, dt).params
    [] branch = "Select" -> SelectBranch(q, ks, dt).params
    [] OTHER -> UnknownBranch(q, ks, dt).params

\* main.py:153-169, 318-326, 524-531, 615-624
ExtractStep(c) ==
  /\ calls[c].pc = "extract"
  /\ LET st == StoreLocal(c, Extracted(calls[c].branch, Lookup(c, "query"),
                                       Lookup(c, "keyspace"), Lookup(c, "driver_type")))
     IN  /\ calls' = [st.calls EXCEPT ![c].pc = "render"]
         /\ globals' = st.globals
  /\ UNCHANGED sequential

\* the text a branch builds from the names in scope
RenderFor(c) ==
  LET branch == calls[c].branch
      python == Lookup(c, "driver_type") = "python"
      env == [keyspace |-> Lookup(c, "keyspace"), table_name |-> Lookup(c, "table_name")]
  IN  CASE branch = "LargePartition" ->
             IF python
               THEN Render(TemplateLargePartitionPython,
                           Bindings(env, [partition_key |-> Lookup(c, "partition_key"),
                                          num_rows |-> IntToStr(Lookup(c, "num_rows")),
                                          partition_value |-> Lookup(c, "partition_value")]))
               ELSE JavaLargePartition
        [] branch = "Lwt" ->
             IF python
               THEN IF Lookup(c, "operation_type") = "insert"
                      THEN Render(TemplateLwtInsertPython, env)
                      ELSE Render(TemplateLwtUpdatePython, env)
               ELSE JavaLwt
        [] branch = "BulkInsert" ->
             IF python
               THEN Render(TemplateBulkInsertPython,
                           Bindings(env, [num_rows |-> IntToStr(Lookup(c, "num_rows"))]))
               ELSE JavaBulkInsert
        [] branch = "Select" ->
             IF python
               THEN IF Lookup(c, "count_query")
                      THEN Render(TemplateSelectCountPython, env)
                      ELSE Render(TemplateSelectPython,
                                  Bindings(env, [limit |-> IntToStr(Lookup(c, "limit"))]))
               ELSE JavaSelect
        [] OTHER -> Render(TemplateUnknown, [query |-> Lookup(c, "query")])

\* main.py:172-313, 330-519, 534-609, 628-682, 686-701, and 733 for a call
\* made by handle_query
RenderStep(c) ==
  /\ calls[c].pc = "render"
  /\ LET code == RenderFor(c)
     IN  calls' = [calls EXCEPT
                     ![c].ret = IF calls[c].via = "handle"
                                  THEN DriverCodeResponse(calls[c].original_query, code)
                                  ELSE code,
                     ![c].pc = "done"]
  /\ UNCHANGED globals
  /\ UNCHANGED sequential

\* the caller has taken the result: the frame is gone
ExitCall(c) ==
  /\ calls[c].pc = "done"
  /\ calls' = [calls EXCEPT ![c] = NoFrame]
  /\ UNCHANGED globals
  /\ UNCHANGED sequential

NextConc ==
  \E c \in 1..MaxCalls :
    \/ Enter(c)
    \/ NormalizeStep(c)
    \/ ClassifyStep(c)
    \/ ExtractStep(c)
    \/ RenderStep(c)
    \/ ExitCall(c)

SpecConc == Init /\ [][NextConc]_vars

\* what the call of a frame returns when no other call is in progress
RunAlone(frame) ==
  LET call == frame.given
      q == IF call.via = "handle" THEN Strip(call.query) ELSE call.query
      ks == IF call.via = "handle" THEN Strip(call.keyspace) ELSE call.keyspace
      code == ParseNaturalLanguageQuery(q, ks, call.driver_type).code
  IN  IF call.via = "handle"
        THEN [original_query |-> q, driver_code |-> code]
        ELSE code

\* C19: whatever calls are in progress at the same time and however their
\* steps interleave, a call returns what it returns when run alone, and no
\* call changes a name bound at module level.
C19_Independent ==
  /\ \A c \in 1..MaxCalls :
       calls[c].pc = "done" => calls[c].ret = RunAlone(calls[c])
  /\ globals = ModuleGlobals

\* a call has returned while another one, of another table, is between its
\* extraction and its rendering
C19_Witness ==
  \E c, d \in 1..MaxCalls :
    /\ c # d
    /\ calls[c].pc = "done"
    /\ calls[c].branch = "Select"
    /\ calls[c].locals["table_name"] = "orders"
    /\ calls[d].pc = "render"
    /\ calls[d].branch = "Select"
    /\ calls[d].locals["table_name"] = "events"
    /\ calls[c].ret = RunAlone(calls[c])
----------------------------------------------------------------------------

\* C21 as stated: a request whose mode is none of driver, execute and
\* natural_language, and a request in mode execute that names a
\* driver_type, are rejected: handle_query gives no success response.
C21_InvalidModeRejected ==
  (/\ Answered
   /\ "mode" \in DOMAIN request.mode
   /\ \/ ModeOf("mode") \notin {"driver", "execute", "natural_language"}
      \/ ModeOf("mode") = "execute" /\ "driver_type" \in DOMAIN request.mode) =>
    /\ response.status # 200
    /\ response.status \in 400..499

\* the families whose branch extracts a table name
ExtractsTable ==
  {"LargePartition", "LwtInsert", "LwtUpdate", "BulkInsert", "Select", "SelectCount"}

\* C22: the call for a query returns what the call for the trimmed,
\* lower-cased query returns, with the same category and the same extracted
\* values; the extracted table name and partition key are in lower case and
\* the python code names them so.
C22_CaseAndSpaceInsensitive ==
  Called =>
    LET folded == Strip(Lower(query))
    IN  /\ query # folded =>
             LET alone == ParseNaturalLanguageQuery(folded, keyspace, driver_type)
             IN  /\ result = alone.code
                 /\ category = alone.category
                 /\ params = alone.params
        /\ category \in ExtractsTable =>
             /\ params.table_name = Lower(params.table_name)
             /\ driver_type = "python" =>
                  Contains(result, keyspace \o "." \o Lower(params.table_name))
        /\ category = "LargePartition" =>
             /\ params.partition_key = Lower(params.partition_key)
             /\ driver_type = "python" =>
                  Contains(result, "WHERE " \o Lower(params.partition_key) \o " = ?")

C22_Witness ==
  /\ Called
  /\ query = "Generate Partition Table Clicks Key Tenant"
  /\ driver_type = "python"
  /\ category = "LargePartition"
  /\ params.table_name = "clicks"
  /\ params.partition_key = "tenant"
  /\ Contains(result, "CREATE TABLE IF NOT EXISTS " \o keyspace \o ".clicks (")

\* the number of the leftmost place of a text where a run of digits is
\* followed by white space and then by rows (-1 when there is none)
RowsNumber(text) ==
  LET runs == {i \in 1..Len(text) :
                 /\ IsDigit(CharAt(text, i))
                 /\ i = 1 \/ ~IsDigit(CharAt(text, i - 1))}
      last(i) == MinOf({j \in i..Len(text) :
                          j = Len(text) \/ ~IsDigit(CharAt(text, j + 1))})
      anchored == {i \in runs :
                     \E k \in (last(i) + 2)..Len(text) :
                       /\ StartsWithAt(text, k, "rows")
                       /\ \A s \in (last(i) + 1)..(k - 1) : IsSpace(CharAt(text, s))}
  IN  IF anchored = {} THEN -1
      ELSE ParseInt(SubSeq(text, MinOf(anchored), last(MinOf(anchored))))

\* the identifier after the leftmost `kw <identifier>`, else the default
IdentifierAfter(text, kw, default) ==
  LET match == SearchKeywordWord(text, kw)
  IN  IF match.found THEN match.group1.text ELSE default

C24_SelectTable ==
  Called =>
    /\ category \in {"Select", "SelectCount"} =>
         /\ params.table_name = FromOrTableName(Norm)
         /\ driver_type = "python" =>
              Contains(result, " FROM " \o keyspace \o "." \o FromOrTableName(Norm))
    /\ category \in {"LwtInsert", "LwtUpdate"} =>
         params.table_name = IdentifierAfter(Norm, "table", "users")
    /\ category = "LargePartition" =>
         params.table_name = IdentifierAfter(Norm, "table", "user_activity")

\* `table` starts before `from`
C24_Witness ==
  /\ Called
  /\ driver_type = "python"
  /\ query = "list table orders from events"
  /\ category = "Select"
  /\ params.table_name = "orders"
  /\ Contains(result, "SELECT * FROM " \o keyspace \o ".orders LIMIT 10")

\* C25 as stated: python output holds the literal IF NOT EXISTS only when
\* the LWT family was selected; the output for "large partition" does not
\* hold it.
C25_GuardOnlyInLwt ==
  (Called /\ driver_type = "python") =>
    /\ Contains(result, "IF NOT EXISTS") => category \in {"LwtInsert", "LwtUpdate"}
    /\ Norm = "large partition" => ~Contains(result, "IF NOT EXISTS")

\* C30: the LargePartition test is true exactly when one of six substring
\* tests is, and the LWT test exactly when one of four is; the other
\* disjuncts of the two conditions never decide.
C30_RedundantDisjuncts ==
  Called =>
    LET text == Norm
        large_partition == LargePartitionPredicate(text)
    IN  /\ large_partition <=>
             \/ Contains(text, "large partition")
             \/ Contains(text, "big partition")
             \/ Contains(text, "test partition")
             \/ Contains(text, "partition") /\ Contains(text, "size")
             \/ Contains(text, "generate") /\ Contains(text, "partition")
             \/ Contains(text, "partition large")
        /\ LwtPredicate(text) <=>
             \/ Contains(text, "lightweight")
             \/ Contains(text, "lwt")
             \/ Contains(text, "if not exists")
             \/ Contains(text, "conditional")
        /\ category = "LargePartition" <=> large_partition

\* a text for which a redundant disjunct is true
C30_Witness ==
  /\ Called
  /\ query = "create large partition"
  /\ Strip(Norm) = "create large partition"
  /\ category = "LargePartition"
----------------------------------------------------------------------------
(* The generated LargePartition program: a fourth specification that runs  *)
(* the insert loop of the python LargePartition template, one statement    *)
(* group at a time, for the row count the template was rendered with.      *)

\* the largest row count asked for in a query
MaxRows == 250

RowCounts == {0, 1, 50, 99, 100, 101, 150, MaxRows}

\* the queries the program is generated for
GeneratedFor ==
  {"large partition with " \o ToString(n) \o " rows" : n \in RowCounts}
  \cup {"large partition"}

\* main.py:217
BatchSize == 100

\* the variables a run of an example program leaves alone
generator == <<pc, op, query, keyspace, driver_type, category, params, result,
               request, response, clock, memo, calls, globals>>

\* the number of batches as the whole quotient only
TotalBatchesFloor(n, batch_size) == n \div batch_size

\* main.py:218
TotalBatches(n, batch_size) ==
  n \div batch_size + (IF n % batch_size # 0 THEN 1 ELSE 0)

\* main.py:228
BatchRows(n, batch, batch_size) ==
  IF batch_size <= n - batch * batch_size THEN batch_size ELSE n - batch * batch_size

\* main.py:154, 215-221: the program starts with the row count of its query
GenStart ==
  /\ script.pc = "idle"
  /\ \E q \in GeneratedFor :
       LET n == LargePartitionBranch(Normalize(q), "test_keyspace", "python").params.num_rows
       IN  script' = [pc |-> "loop", program |-> "generated", num_rows |-> n,
                      total_batches |-> TotalBatches(n, BatchSize),
                      batch |-> 0, batch_rows |-> 0, i |-> 0, executed |-> 0,
                      announced |-> -1]
  /\ UNCHANGED generator

\* main.py:223-228: the progress line divides by total_batches
GenBatchBegin ==
  /\ script.pc = "loop"
  /\ script.batch < script.total_batches
  /\ IF /\ script.batch % 10 = 0 \/ script.batch = script.total_batches - 1
        /\ script.total_batches = 0
       THEN script' = [script EXCEPT !.pc = "ZeroDivisionError"]
       ELSE script' = [script EXCEPT
                         !.batch_rows = BatchRows(script.num_rows, script.batch, BatchSize),
                         !.i = 0,
                         !.pc = "rows"]
  /\ UNCHANGED generator

\* main.py:231-242: one row is inserted, or the driver raises
GenInsertRow ==
  /\ script.pc = "rows"
  /\ script.i < script.batch_rows
  /\ \E ok \in BOOLEAN :
       script' = IF ok
                   THEN [script EXCEPT !.executed = @ + 1, !.i = @ + 1]
                   ELSE [script EXCEPT !.pc = "execute_raised"]
  /\ UNCHANGED generator

\* main.py:244-246
GenBatchEnd ==
  /\ script.pc = "rows"
  /\ script.i = script.batch_rows
  /\ script' = [script EXCEPT !.batch = @ + 1, !.pc = "loop"]
  /\ UNCHANGED generator

\* main.py:248-251
GenFinish ==
  /\ script.pc = "loop"
  /\ script.batch = script.total_batches
  /\ script' = [script EXCEPT !.announced = script.num_rows, !.pc = "finished"]
  /\ UNCHANGED generator

NextGenerated == GenStart \/ GenBatchBegin \/ GenInsertRow \/ GenBatchEnd \/ GenFinish

SpecGenerated == Init /\ [][NextGenerated]_vars

Generated == script.pc # "idle" /\ script.program = "generated"

\* C27: in the insert loop of the LargePartition program, for every row
\* count n >= 0, total_batches is the least number of batches of 100 that
\* hold n rows, every batch inserts between 1 and 100 rows, the rows
\* inserted when the program announces "Successfully inserted n rows" are
\* exactly n, and the progress line never divides by zero.
C27_BatchingConsistent ==
  Generated =>
    /\ script.total_batches * 100 >= script.num_rows
    /\ (script.total_batches - 1) * 100 < script.num_rows
    /\ script.pc = "rows" => script.batch_rows \in 1..100
    /\ script.pc = "finished" =>
         script.executed = script.num_rows /\ script.announced = script.executed
    /\ script.executed <= script.num_rows
    /\ script.pc # "ZeroDivisionError"

\* a row count that is no multiple of the batch size
C27_Witness ==
  /\ Generated
  /\ script.pc = "finished"
  /\ script.num_rows = 250
  /\ script.total_batches = 3
  /\ script.batch_rows = 50
  /\ script.executed = 250
----------------------------------------------------------------------------
(* The example scripts: a fifth specification that runs main() of          *)
(* test_large_partition.py (setup_connection, generate_large_partition,    *)
(* query_large_partition, cleanup; test_lwt_complete.py and                *)
(* test_materialized_view.py have the same setup_connection, cleanup and   *)
(* main around another body). Every call into the driver, the file system  *)
(* or the network either succeeds or raises.                               *)

\* test_large_partition.py:209: the row count main passes, and other counts
\* generate_large_partition can be called with
ScriptRowCounts == RowCounts \cup {1000}

\* test_large_partition.py:196-201
MainStart ==
  /\ script.pc = "idle"
  /\ \E n \in ScriptRowCounts :
       script' = [pc |-> "create_temp", program |-> "test_large_partition",
                  num_rows |-> n,
                  file_created |-> FALSE, file_exists |-> FALSE,
                  setup_bundle_file |-> FALSE,
                  cluster_built |-> FALSE, shutdowns |-> 0,
                  main_cluster |-> FALSE, main_bundle_file |-> FALSE,
                  batches |-> 0, batch |-> 0, i |-> 0, executed |-> 0]
  /\ UNCHANGED generator

\* test_large_partition.py:31: NamedTemporaryFile(delete=False)
CreateTempFile ==
  /\ script.pc = "create_temp"
  /\ \E ok \in BOOLEAN :
       script' = IF ok
                   THEN [script EXCEPT !.file_created = TRUE, !.file_exists = TRUE,
                                       !.pc = "write_bundle"]
                   ELSE [script EXCEPT !.pc = "setup_except"]
  /\ UNCHANGED generator

\* test_large_partition.py:32-33: bundle_file is bound after the write
WriteBundle ==
  /\ script.pc = "write_bundle"
  /\ \E ok \in BOOLEAN :
       script' = IF ok
                   THEN [script EXCEPT !.setup_bundle_file = TRUE, !.pc = "build_cluster"]
                   ELSE [script EXCEPT !.pc = "setup_except"]
  /\ UNCHANGED generator

\* test_large_partition.py:36-46
BuildCluster ==
  /\ script.pc = "build_cluster"
  /\ \E ok \in BOOLEAN :
       script' = IF ok
                   THEN [script EXCEPT !.cluster_built = TRUE, !.pc = "connect"]
                   ELSE [script EXCEPT !.pc = "setup_except"]
  /\ UNCHANGED generator

\* test_large_partition.py:48
Connect ==
  /\ script.pc = "connect"
  /\ \E ok \in BOOLEAN :
       script' = IF ok
                   THEN [script EXCEPT !.pc = "set_keyspace"]
                   ELSE [script EXCEPT !.pc = "setup_except"]
  /\ UNCHANGED generator

\* test_large_partition.py:51-54 and 203: on return main binds cluster
SetKeyspace ==
  /\ script.pc = "set_keyspace"
  /\ \E ok \in BOOLEAN :
       script' = IF ok
                   THEN [script EXCEPT !.main_cluster = TRUE, !.pc = "read_bundle_path"]
                   ELSE [script EXCEPT !.pc = "setup_except"]
  /\ UNCHANGED generator

\* test_large_partition.py:56-60: the handler of setup_connection, which
\* raises again
SetupExcept ==
  /\ script.pc = "setup_except"
  /\ script' = [script EXCEPT
                  !.file_exists = IF script.setup_bundle_file /\ script.file_exists
                                    THEN FALSE ELSE @,
                  !.pc = "setup_raised"]
  /\ UNCHANGED generator

\* test_large_partition.py:206
ReadBundlePath ==
  /\ script.pc = "read_bundle_path"
  /\ \E ok \in BOOLEAN :
       script' = IF ok
                   THEN [script EXCEPT !.main_bundle_file = TRUE, !.pc = "generate"]
                   ELSE [script EXCEPT !.pc = "body_raised"]
  /\ UNCHANGED generator

\* test_large_partition.py:94-119: the table, the prepared insert, batches
GenerateBegin ==
  /\ script.pc = "generate"
  /\ \E ok \in BOOLEAN :
       script' = IF ok
                   THEN [script EXCEPT !.batches = script.num_rows \div BatchSize,
                                       !.batch = 0, !.i = 0, !.pc = "insert"]
                   ELSE [script EXCEPT !.pc = "body_raised"]
  /\ UNCHANGED generator

\* test_large_partition.py:121-132: one execution of the prepared insert
InsertRow ==
  /\ script.pc = "insert"
  /\ script.batch < script.batches
  /\ \E ok \in BOOLEAN :
       script' = IF ok
                   THEN [script EXCEPT
                           !.executed = @ + 1,
                           !.i = IF script.i + 1 = BatchSize THEN 0 ELSE script.i + 1,
                           !.batch = IF script.i + 1 = BatchSize THEN @ + 1 ELSE @]
                   ELSE [script EXCEPT !.pc = "body_raised"]
  /\ UNCHANGED generator

\* test_large_partition.py:134: generate_large_partition returns
GenerateEnd ==
  /\ script.pc = "insert"
  /\ script.batch = script.batches
  /\ script' = [script EXCEPT !.pc = "query"]
  /\ UNCHANGED generator

\* test_large_partition.py:212 (136-194)
QueryLargePartition ==
  /\ script.pc = "query"
  /\ \E ok \in BOOLEAN :
       script' = IF ok
                   THEN [script EXCEPT !.pc = "finally"]
                   ELSE [script EXCEPT !.pc = "body_raised"]
  /\ UNCHANGED generator

\* test_large_partition.py:214-215
MainExcept ==
  /\ script.pc \in {"setup_raised", "body_raised"}
  /\ script' = [script EXCEPT !.pc = "finally"]
  /\ UNCHANGED generator

\* test_large_partition.py:216-218 and 62-70: cleanup(cluster, bundle_file)
\* with the names of main
Cleanup ==
  /\ script.pc = "finally"
  /\ script' = [script EXCEPT
                  !.shutdowns = IF script.main_cluster THEN @ + 1 ELSE @,
                  !.file_exists = IF script.main_bundle_file /\ script.file_exists
                                    THEN FALSE ELSE @,
                  !.pc = "returned"]
  /\ UNCHANGED generator

NextScript ==
  \/ MainStart
  \/ CreateTempFile
  \/ WriteBundle
  \/ BuildCluster
  \/ Connect
  \/ SetKeyspace
  \/ SetupExcept
  \/ ReadBundlePath
  \/ GenerateBegin
  \/ InsertRow
  \/ GenerateEnd
  \/ QueryLargePartition
  \/ MainExcept
  \/ Cleanup

SpecScript == Init /\ [][NextScript]_vars

InScript == script.pc # "idle" /\ script.program = "test_large_partition"

\* C26 as stated: generate_large_partition(session, num_rows) has executed
\* the prepared insert exactly num_rows times when it returns, for every
\* num_rows >= 0.
C26_ExactlyNumRows ==
  (InScript /\ script.pc = "query") => script.executed = script.num_rows

\* C28 as stated: when setup_connection raises after the temporary file
\* was created, the file has been deleted by the time the exception reaches
\* the caller.
C28_TempFileDeleted ==
  (InScript /\ script.pc = "setup_raised" /\ script.file_created) =>
    ~script.file_exists

\* C29 as stated: when main() returns, a Cluster that setup_connection
\* constructed has been shut down, and it is never shut down twice.
C29_ClusterShutDown ==
  InScript =>
    /\ script.shutdowns <= 1
    /\ (script.pc = "returned" /\ script.cluster_built) => script.shutdowns = 1
====
